---- MODULE Spec2Model ----
(***************************************************************************)
(* TinySprite: the Track bytecode virtual machine with its assembler       *)
(* (wasm4-as/src/tinysprite.track.js, and the AssemblyScript Track of      *)
(* lib/bitmap.d.ts), and the sub-byte field codec with its grid            *)
(* (wasm4-as/src/tinysprite.ts, unnamed/part_001).                         *)
(***************************************************************************)
EXTENDS Integers, Sequences, FiniteSets, TLC

VARIABLES
  rev,       \* which Track revision runs: "js" (tinysprite.track.js) or "as" (bitmap.d.ts),
             \* or "both" for a host that runs one Track of each
  src,       \* the instructions the program was built from
  bytecode,  \* the program bytes (the `bytecode` array / memory.data<u8>)
  t,         \* the fields of the Track
  obs,       \* the last call on the Track: the fields before it, the fields after
             \* the gates of update(), the gate taken, the dispatches, the callbacks
  call,      \* the last call of a pure assembler / codec function, with its result
  grid,      \* the DataGrid: w, h, format
  gmem,      \* the bytes the grid addresses
  gop,       \* the last grid operation, with its arguments and result
  tracks,    \* the Tracks of a host that runs more than one (t is the Track of
             \* a host that runs one)
  log,       \* for each of `tracks`: the update() calls made on it so far and
             \* the callbacks of the last of them
  scene,     \* the fields of the Scene: children, _created
  sprites,   \* the fields of each Sprite the host constructed
  events     \* the events of the sprites the host has observed so far

vars ==
  <<rev, src, bytecode, t, obs, call, grid, gmem, gop, tracks, log,
    scene, sprites, events>>

-----------------------------------------------------------------------------
(* Bounds of the model.                                                    *)

\* Longest program drawn from the instruction catalogues.
MaxInstr == 2

\* Passes of a for statement the model is prepared to run before it gives up
\* (the statement's own guard ends it long before).
Unroll == 512

-----------------------------------------------------------------------------
(* Arithmetic helpers: JavaScript / AssemblyScript primitives.             *)

\* Math.abs
Abs(x) == IF x < 0 THEN -x ELSE x

\* F applied n times to s, stopping as soon as s.done; evaluated by halving,
\* so that a loop of hundreds of passes needs only a shallow recursion.
RECURSIVE Repeat(_, _, _)
Repeat(F(_), s, n) ==
  IF s.done \/ n = 0 THEN s
  ELSE IF n = 1 THEN F(s)
  ELSE Repeat(F, Repeat(F, s, n \div 2), n - (n \div 2))

\* Concatenation of a sequence of sequences.
RECURSIVE Flatten(_)
Flatten(ss) == IF ss = <<>> THEN <<>> ELSE Head(ss) \o Flatten(Tail(ss))

-----------------------------------------------------------------------------
(* tinysprite.track.js: the assembler.                                     *)

Opcode ==
  [ NOP        |-> 0,
    HALT       |-> 255,
    JUMP       |-> 254,
    IFJUMP     |-> 253,
    IFNOTJUMP  |-> 252,
    SYSCALL    |-> 251,
    RESET      |-> 250,
    SET        |-> 249,
    ADD        |-> 248,
    SUB        |-> 247,
    EQUAL      |-> 246,
    LT         |-> 245,
    GT         |-> 244,
    LTEQUAL    |-> 243,
    GTEQUAL    |-> 242,
    TICKS      |-> 241,
    TICKS16    |-> 240,
    WAIT       |-> 239,
    WAIT16     |-> 238,
    INSTRUMENT |-> 237,
    PLAY       |-> 236 ]

\* u8(value): Math.abs(value) % 256 (NaN cannot arise from an integer).
u8(value) == Abs(value) % 256

\* u16hilo(value): [hi, lo]; lo is computed as (value - hi), not (value - hi * 256).
u16hilo(value) ==
  LET hi == u8((Abs(value) % 65536) \div 256)
      lo == u8((Abs(value) % 65536) - hi)
  IN  <<hi, lo>>

\* u16(value): (lo * 0x100) | hi, with the hi and lo of u16hilo; both are bytes,
\* so the bitwise OR is a sum.
u16(value) ==
  LET hi == u8((Abs(value) % 65536) \div 256)
      lo == u8((Abs(value) % 65536) - hi)
  IN  (lo * 256) + hi

\* usize(value): the same as u16(value).
usize(value) == u16(value)

\* The builders: each returns the bytes it pushes onto `bytecode`.
\* bytes[1], bytes[0] of the source are bytes[2], bytes[1] here (1-based).
nop == <<Opcode.NOP>>

halt == <<Opcode.HALT>>

jump(value) == LET bytes == u16hilo(value) IN <<Opcode.JUMP, bytes[2], bytes[1]>>

ifjump(value) == LET bytes == u16hilo(value) IN <<Opcode.IFJUMP, bytes[2], bytes[1]>>

ifnotjump(value) == LET bytes == u16hilo(value) IN <<Opcode.IFNOTJUMP, bytes[2], bytes[1]>>

syscall(value) == LET bytes == u16hilo(value) IN <<Opcode.SYSCALL, bytes[2], bytes[1]>>

reset == <<Opcode.RESET>>

set(value) == <<Opcode.SET, u8(value)>>

add(value) == <<Opcode.ADD, u8(value)>>

sub(value) == <<Opcode.SUB, u8(value)>>

equal(value) == <<Opcode.EQUAL, u8(value)>>

lt(value) == <<Opcode.LT, u8(value)>>

gt(value) == <<Opcode.GT, u8(value)>>

ltequal(value) == <<Opcode.LTEQUAL, u8(value)>>

gtequal(value) == <<Opcode.GTEQUAL, u8(value)>>

ticks(value) == <<Opcode.TICKS, u8(value)>>

ticks16(value) == LET bytes == u16hilo(value) IN <<Opcode.TICKS16, bytes[2], bytes[1]>>

wait(value) == <<Opcode.WAIT, u8(value)>>

wait16(value) == LET bytes == u16hilo(value) IN <<Opcode.WAIT16, bytes[2], bytes[1]>>

instrument(value) == <<Opcode.INSTRUMENT, u8(value)>>

play(value) == <<Opcode.PLAY, u8(value)>>

\* db(...bytes): pushes u8(byte) for each of its arguments.
db(bytes) == [i \in 1..Len(bytes) |-> u8(bytes[i])]

\* One builder call [op, v] and the bytes it appends.
Emit(c) ==
  CASE c.op = "nop"        -> nop
    [] c.op = "halt"       -> halt
    [] c.op = "jump"       -> jump(c.v)
    [] c.op = "ifjump"     -> ifjump(c.v)
    [] c.op = "ifnotjump"  -> ifnotjump(c.v)
    [] c.op = "syscall"    -> syscall(c.v)
    [] c.op = "reset"      -> reset
    [] c.op = "set"        -> set(c.v)
    [] c.op = "add"        -> add(c.v)
    [] c.op = "sub"        -> sub(c.v)
    [] c.op = "equal"      -> equal(c.v)
    [] c.op = "lt"         -> lt(c.v)
    [] c.op = "gt"         -> gt(c.v)
    [] c.op = "ltequal"    -> ltequal(c.v)
    [] c.op = "gtequal"    -> gtequal(c.v)
    [] c.op = "ticks"      -> ticks(c.v)
    [] c.op = "ticks16"    -> ticks16(c.v)
    [] c.op = "wait"       -> wait(c.v)
    [] c.op = "wait16"     -> wait16(c.v)
    [] c.op = "instrument" -> instrument(c.v)
    [] c.op = "play"       -> play(c.v)

\* The `bytecode` array after a sequence of builder calls.
Assemble(cs) == Flatten([i \in 1..Len(cs) |-> Emit(cs[i])])

\* Offset in `bytecode` of the first byte pushed by the k-th builder call.
StartOf(cs, k) == Len(Assemble(SubSeq(cs, 1, k - 1)))

\* The NaN of a read past the array handed on: a value that is no byte.
loadu8_unguarded(mem, offset) ==
  IF offset >= 0 /\ offset < Len(mem) THEN u8(Abs(mem[offset + 1]) % 256) ELSE -1

\* loadu8(offset): a read past the array yields undefined -> NaN -> 0.
loadu8(mem, offset) ==
  IF offset >= 0 /\ offset < Len(mem) THEN u8(Abs(mem[offset + 1]) % 256) ELSE 0

\* loadu16(offset): low byte first, then high byte.
loadu16(mem, offset) ==
  LET lo == loadu8(mem, offset)
      hi == loadu8(mem, offset + 1)
  IN  (hi * 256) + lo

-----------------------------------------------------------------------------
(* tinysprite.track.js: class Track.                                       *)

\* A fired callback, as the host observes it.
Cb(name, arg) == [cb |-> name, arg |-> arg]

\* The result of an update() call that entered the decode loop with the fields
\* `entry` and ran it to its end r.
Decoded(entry, r) ==
  [t |-> r.t, gate |-> "decode", ops |-> r.ops, fired |-> r.fired, entry |-> entry]

\* One dispatch of the decode loop, as recorded for the observer.
Op(at, name, next, jumped) == [at |-> at, op |-> name, next |-> next, jumped |-> jumped]

\* constructor(data): every field zero / false.
Track_new(data) ==
  [ data        |-> data,
    cursor      |-> 0,
    counter     |-> 0,
    register    |-> 0,
    accumulator |-> FALSE,
    instrument  |-> 0,
    note        |-> 0,
    syscode     |-> 0,
    ticks       |-> 0,
    wait        |-> 0,
    sentHalt    |-> FALSE,
    sentSyscall |-> FALSE,
    sentPlay    |-> FALSE ]

\* The halt check left out.
Track_haltGate_skipped(tr) == FALSE

\* if(this.sentHalt)
Track_haltGate(tr) == tr.sentHalt

\* The gate left one call early.
Track_counterGate_early(tr) == tr.counter > 1

\* if(this.counter > 0)
Track_counterGate(tr) == tr.counter > 0

\* The callbacks the counter gate re-fires while it counts down.
Track_listen(tr) ==
  (IF tr.sentSyscall THEN <<Cb("syscall", tr.syscode)>> ELSE <<>>)
    \o (IF tr.sentPlay THEN <<Cb("play", tr.note)>> ELSE <<>>)

\* The loop bound off by one.
Track_loopGuard_inclusive(index) == index <= 255

\* for(let index = 0; index < 255; index += 1)
Track_loopGuard(index) == index < 255

\* The test of IFJUMP inverted.
Track_ifjumpTaken_negated(tr) == tr.accumulator = FALSE

\* if(this.accumulator === true), in the IFJUMP branch
Track_ifjumpTaken(tr) == tr.accumulator = TRUE

\* The whole instruction skipped: opcode and operand.
Track_notTaken_whole(tr) == [tr EXCEPT !.cursor = @ + 3]

\* this.cursor += 2, after a conditional jump that is not taken
Track_notTaken(tr) == [tr EXCEPT !.cursor = @ + 2]

\* The byte after the note skipped as well, as after PLAY.
Track_implicitNote_operand(tr, opcode) ==
  [tr EXCEPT !.note = opcode, !.sentPlay = TRUE, !.cursor = @ + 2]

\* The fall-through at the end of the loop body: the opcode is the note.
Track_implicitNote(tr, opcode) ==
  [tr EXCEPT !.note = opcode, !.sentPlay = TRUE, !.cursor = @ + 1]

\* The body of the decode loop: the chain of `if(opcode === ...)`.
\* cont is TRUE for `continue`, FALSE for `break`.  The fields are plain
\* JavaScript numbers: nothing wraps.
Track_exec(tr, opcode, value, word) ==
  LET R(tn, cont, fired, name, jumped) ==
        [t |-> tn, cont |-> cont, fired |-> fired,
         op |-> Op(tr.cursor, name, tn.cursor, jumped)]
  IN
  CASE opcode = Opcode.NOP ->
         R([tr EXCEPT !.cursor = @ + 1], FALSE, <<>>, "nop", FALSE)
    [] opcode = Opcode.HALT ->
         R([tr EXCEPT !.sentHalt = TRUE, !.cursor = @ + 1], FALSE,
           <<Cb("halt", 0)>>, "halt", FALSE)
    [] opcode = Opcode.JUMP ->
         R([tr EXCEPT !.cursor = word], TRUE, <<>>, "jump", TRUE)
    [] opcode = Opcode.IFJUMP ->
         IF Track_ifjumpTaken(tr)
         THEN R([tr EXCEPT !.cursor = word], TRUE, <<>>, "ifjump", TRUE)
         ELSE R(Track_notTaken(tr), FALSE, <<>>, "ifjump", FALSE)
    [] opcode = Opcode.IFNOTJUMP ->
         IF tr.accumulator = FALSE
         THEN R([tr EXCEPT !.cursor = word], TRUE, <<>>, "ifnotjump", TRUE)
         ELSE R(Track_notTaken(tr), FALSE, <<>>, "ifnotjump", FALSE)
    [] opcode = Opcode.SYSCALL ->
         R([tr EXCEPT !.syscode = word, !.sentSyscall = TRUE, !.cursor = @ + 3],
           FALSE, <<Cb("syscall", word)>>, "syscall", FALSE)
    [] opcode = Opcode.SET ->
         R([tr EXCEPT !.register = value, !.cursor = @ + 2], TRUE, <<>>, "set", FALSE)
    [] opcode = Opcode.ADD ->
         R([tr EXCEPT !.register = @ + value, !.cursor = @ + 2], TRUE, <<>>, "add", FALSE)
    [] opcode = Opcode.SUB ->
         R([tr EXCEPT !.register = @ - value, !.cursor = @ + 2], TRUE, <<>>, "sub", FALSE)
    [] opcode = Opcode.EQUAL ->
         R([tr EXCEPT !.accumulator = (tr.register = value), !.cursor = @ + 2],
           TRUE, <<>>, "equal", FALSE)
    [] opcode = Opcode.LT ->
         R([tr EXCEPT !.accumulator = (tr.register < value), !.cursor = @ + 2],
           TRUE, <<>>, "lt", FALSE)
    [] opcode = Opcode.GT ->
         R([tr EXCEPT !.accumulator = (tr.register > value), !.cursor = @ + 2],
           TRUE, <<>>, "gt", FALSE)
    [] opcode = Opcode.LTEQUAL ->
         R([tr EXCEPT !.accumulator = (tr.register <= value), !.cursor = @ + 2],
           TRUE, <<>>, "ltequal", FALSE)
    [] opcode = Opcode.GTEQUAL ->
         R([tr EXCEPT !.accumulator = (tr.register >= value), !.cursor = @ + 2],
           TRUE, <<>>, "gtequal", FALSE)
    [] opcode = Opcode.TICKS ->
         R([tr EXCEPT !.ticks = value, !.counter = value, !.cursor = @ + 2],
           FALSE, <<>>, "ticks", FALSE)
    [] opcode = Opcode.TICKS16 ->
         R([tr EXCEPT !.ticks = word, !.counter = word, !.cursor = @ + 3],
           FALSE, <<>>, "ticks16", FALSE)
    [] opcode = Opcode.WAIT ->
         R([tr EXCEPT !.wait = value, !.cursor = @ + 2], FALSE, <<>>, "wait", FALSE)
    [] opcode = Opcode.WAIT16 ->
         R([tr EXCEPT !.wait = word, !.cursor = @ + 3], FALSE, <<>>, "wait16", FALSE)
    [] opcode = Opcode.INSTRUMENT ->
         R([tr EXCEPT !.instrument = value, !.cursor = @ + 2], TRUE, <<>>,
           "instrument", FALSE)
    [] opcode = Opcode.PLAY ->
         R([tr EXCEPT !.note = value, !.sentPlay = TRUE, !.cursor = @ + 2],
           FALSE, <<Cb("play", value)>>, "play", FALSE)
    [] OTHER ->
         R(Track_implicitNote(tr, opcode), FALSE, <<Cb("play", opcode)>>, "note", FALSE)

\* The fetch at the top of the loop body: the opcode at the cursor and the
\* operand bytes after it, then the dispatch.
Track_dispatch(mem, tr) ==
  Track_exec(tr, loadu8(mem, tr.data + tr.cursor),
                 loadu8(mem, tr.data + tr.cursor + 1),
                 loadu16(mem, tr.data + tr.cursor + 1))

\* The loop state after a dispatch d: `continue` goes on, `break` leaves.
Track_after(s, d) ==
  [t |-> d.t, ops |-> Append(s.ops, d.op), fired |-> s.fired \o d.fired,
   index |-> s.index + 1, done |-> ~d.cont]

\* One pass of the for statement: the guard, then the body and index += 1.
\* done records that the loop has been left.
Track_iter(mem, s) ==
  IF s.done THEN s
  ELSE IF ~Track_loopGuard(s.index) THEN [s EXCEPT !.done = TRUE]
  ELSE Track_after(s, Track_dispatch(mem, s.t))

\* The decode loop of update(), run until it is left.
Track_loop(mem, tr, fired) ==
  Repeat(LAMBDA s : Track_iter(mem, s),
         [t |-> tr, ops |-> <<>>, fired |-> fired, index |-> 0, done |-> FALSE],
         Unroll)

\* halt() not called again once halted.
Track_onHalt_silent(tr) == <<>>

\* this.halt(), at the halt gate
Track_onHalt(tr) == <<Cb("halt", 0)>>

\* this.counter = this.ticks; this.sentSyscall = false; this.sentPlay = false
Track_newCycle(tr) ==
  [tr EXCEPT !.counter = tr.ticks, !.sentSyscall = FALSE, !.sentPlay = FALSE]

\* The wait period ignored.
Track_waitGate_skipped(tr) == FALSE

\* if(this.wait > 0)
Track_waitGate(tr) == tr.wait > 0

\* update(): the whole call.  gate names the return taken.
Track_update(mem, tr) ==
  IF Track_haltGate(tr)
  THEN [t |-> tr, gate |-> "halt", ops |-> <<>>, fired |-> Track_onHalt(tr),
        entry |-> tr]
  ELSE IF Track_counterGate(tr)
  THEN [t |-> [tr EXCEPT !.counter = @ - 1], gate |-> "counter", ops |-> <<>>,
        fired |-> Track_listen(tr), entry |-> tr]
  ELSE LET t1 == Track_newCycle(tr)
       IN  IF Track_waitGate(t1)
           THEN [t |-> [t1 EXCEPT !.wait = @ - 1], gate |-> "wait", ops |-> <<>>,
                 fired |-> <<>>, entry |-> t1]
           ELSE Decoded(t1, Track_loop(mem, t1, <<>>))

-----------------------------------------------------------------------------
(* lib/bitmap.d.ts, region <track.ts>: the AssemblyScript Track.           *)
(* cursor, syscode, ticks and wait are u16; counter, register, instrument  *)
(* and note are u8: every store wraps to the width of the field.           *)

TRACK_OPCODE_NOP == 0

TRACK_OPCODE_HALT == 255

TRACK_OPCODE_JUMP == 254

TRACK_OPCODE_IFJUMP == 253

TRACK_OPCODE_IFNOTJUMP == 252

TRACK_OPCODE_SYSCALL == 251

TRACK_OPCODE_SET == 250

TRACK_OPCODE_ADD == 249

TRACK_OPCODE_SUB == 248

TRACK_OPCODE_EQUAL == 247

TRACK_OPCODE_LT == 246

TRACK_OPCODE_GT == 245

TRACK_OPCODE_LTEQUAL == 244

TRACK_OPCODE_GTEQUAL == 243

TRACK_OPCODE_TICKS == 242

TRACK_OPCODE_TICKS16 == 241

TRACK_OPCODE_WAIT == 240

TRACK_OPCODE_WAIT16 == 239

TRACK_OPCODE_INSTRUMENT == 238

TRACK_OPCODE_PLAY == 237

\* A store into a u8 field.
AsU8(x) == x % 256

\* A store into a u16 field.
AsU16(x) == x % 65536

\* load<u8>(offset): linear memory holds the program; the bytes after it are
\* taken as zero-filled.
load_u8(mem, offset) ==
  IF offset >= 0 /\ offset < Len(mem) THEN mem[offset + 1] % 256 ELSE 0

\* load<u16>(offset): little-endian.
load_u16(mem, offset) == load_u8(mem, offset) + (256 * load_u8(mem, offset + 1))

\* if(this.sentHalt)
AsTrack_haltGate(tr) == tr.sentHalt

\* The callbacks re-fired at the top of update(), before the counter gate.
AsTrack_listen(tr) ==
  (IF tr.sentSyscall THEN <<Cb("syscall", tr.syscode)>> ELSE <<>>)
    \o (IF tr.sentPlay THEN <<Cb("play", tr.note)>> ELSE <<>>)

\* for(let index: u8 = 0; index < 255; index += 1)
AsTrack_loopGuard(index) == index < 255

\* The body of the decode loop: the chain of `if(opcode === ...)`.
AsTrack_exec(tr, opcode, value, word) ==
  LET R(tn, cont, fired, name, jumped) ==
        [t |-> tn, cont |-> cont, fired |-> fired,
         op |-> Op(tr.cursor, name, tn.cursor, jumped)]
  IN
  CASE opcode = TRACK_OPCODE_NOP ->
         R([tr EXCEPT !.cursor = AsU16(@ + 1)], FALSE, <<>>, "nop", FALSE)
    [] opcode = TRACK_OPCODE_HALT ->
         R([tr EXCEPT !.sentHalt = TRUE, !.cursor = AsU16(@ + 1)], FALSE,
           <<Cb("halt", 0)>>, "halt", FALSE)
    [] opcode = TRACK_OPCODE_JUMP ->
         R([tr EXCEPT !.cursor = word], TRUE, <<>>, "jump", TRUE)
    [] opcode = TRACK_OPCODE_IFJUMP ->
         IF tr.accumulator = TRUE
         THEN R([tr EXCEPT !.cursor = word], TRUE, <<>>, "ifjump", TRUE)
         ELSE R([tr EXCEPT !.cursor = AsU16(@ + 2)], FALSE, <<>>, "ifjump", FALSE)
    [] opcode = TRACK_OPCODE_IFNOTJUMP ->
         IF tr.accumulator = FALSE
         THEN R([tr EXCEPT !.cursor = word], TRUE, <<>>, "ifnotjump", TRUE)
         ELSE R([tr EXCEPT !.cursor = AsU16(@ + 2)], FALSE, <<>>, "ifnotjump", FALSE)
    [] opcode = TRACK_OPCODE_SYSCALL ->
         R([tr EXCEPT !.syscode = word, !.sentSyscall = TRUE,
                      !.cursor = AsU16(@ + 3)],
           FALSE, <<Cb("syscall", word)>>, "syscall", FALSE)
    [] opcode = TRACK_OPCODE_SET ->
         R([tr EXCEPT !.register = value, !.cursor = AsU16(@ + 2)],
           TRUE, <<>>, "set", FALSE)
    [] opcode = TRACK_OPCODE_ADD ->
         R([tr EXCEPT !.register = AsU8(@ + value), !.cursor = AsU16(@ + 2)],
           TRUE, <<>>, "add", FALSE)
    [] opcode = TRACK_OPCODE_SUB ->
         R([tr EXCEPT !.register = AsU8(@ - value), !.cursor = AsU16(@ + 2)],
           TRUE, <<>>, "sub", FALSE)
    [] opcode = TRACK_OPCODE_EQUAL ->
         R([tr EXCEPT !.accumulator = (tr.register = value), !.cursor = AsU16(@ + 2)],
           TRUE, <<>>, "equal", FALSE)
    [] opcode = TRACK_OPCODE_LT ->
         R([tr EXCEPT !.accumulator = (tr.register < value), !.cursor = AsU16(@ + 2)],
           TRUE, <<>>, "lt", FALSE)
    [] opcode = TRACK_OPCODE_GT ->
         R([tr EXCEPT !.accumulator = (tr.register > value), !.cursor = AsU16(@ + 2)],
           TRUE, <<>>, "gt", FALSE)
    [] opcode = TRACK_OPCODE_LTEQUAL ->
         R([tr EXCEPT !.accumulator = (tr.register <= value), !.cursor = AsU16(@ + 2)],
           TRUE, <<>>, "ltequal", FALSE)
    [] opcode = TRACK_OPCODE_GTEQUAL ->
         R([tr EXCEPT !.accumulator = (tr.register >= value), !.cursor = AsU16(@ + 2)],
           TRUE, <<>>, "gtequal", FALSE)
    [] opcode = TRACK_OPCODE_TICKS ->
         R([tr EXCEPT !.ticks = value, !.counter = AsU8(value),
                      !.cursor = AsU16(@ + 2)],
           TRUE, <<>>, "ticks", FALSE)
    [] opcode = TRACK_OPCODE_TICKS16 ->
         R([tr EXCEPT !.ticks = word, !.counter = AsU8(word),
                      !.cursor = AsU16(@ + 3)],
           FALSE, <<>>, "ticks16", FALSE)
    [] opcode = TRACK_OPCODE_WAIT ->
         R([tr EXCEPT !.wait = value, !.cursor = AsU16(@ + 2)],
           FALSE, <<>>, "wait", FALSE)
    [] opcode = TRACK_OPCODE_WAIT16 ->
         R([tr EXCEPT !.wait = word, !.cursor = AsU16(@ + 3)],
           FALSE, <<>>, "wait16", FALSE)
    [] opcode = TRACK_OPCODE_INSTRUMENT ->
         R([tr EXCEPT !.instrument = value, !.cursor = AsU16(@ + 2)],
           TRUE, <<>>, "instrument", FALSE)
    [] opcode = TRACK_OPCODE_PLAY ->
         R([tr EXCEPT !.note = value, !.sentPlay = TRUE, !.cursor = AsU16(@ + 2)],
           FALSE, <<Cb("play", value)>>, "play", FALSE)
    [] OTHER ->
         R([tr EXCEPT !.note = opcode, !.sentPlay = TRUE, !.cursor = AsU16(@ + 1)],
           FALSE, <<Cb("play", opcode)>>, "note", FALSE)

\* The fetch at the top of the loop body: the opcode at the cursor and the
\* operand bytes after it, then the dispatch.
AsTrack_dispatch(mem, tr) ==
  AsTrack_exec(tr, load_u8(mem, tr.data + tr.cursor),
                 load_u8(mem, tr.data + tr.cursor + 1),
                 load_u16(mem, tr.data + tr.cursor + 1))

\* The loop state after a dispatch d: `continue` goes on, `break` leaves.
AsTrack_after(s, d) ==
  [t |-> d.t, ops |-> Append(s.ops, d.op), fired |-> s.fired \o d.fired,
   index |-> s.index + 1, done |-> ~d.cont]

\* One pass of the for statement: the guard, then the body and index += 1.
\* done records that the loop has been left.
AsTrack_iter(mem, s) ==
  IF s.done THEN s
  ELSE IF ~AsTrack_loopGuard(s.index) THEN [s EXCEPT !.done = TRUE]
  ELSE AsTrack_after(s, AsTrack_dispatch(mem, s.t))

\* The decode loop of update(), run until it is left.
AsTrack_loop(mem, tr, fired) ==
  Repeat(LAMBDA s : AsTrack_iter(mem, s),
         [t |-> tr, ops |-> <<>>, fired |-> fired, index |-> 0, done |-> FALSE],
         Unroll)

\* update(): the whole call.
AsTrack_update(mem, tr) ==
  IF AsTrack_haltGate(tr)
  THEN [t |-> tr, gate |-> "halt", ops |-> <<>>, fired |-> <<Cb("halt", 0)>>,
        entry |-> tr]
  ELSE IF tr.counter > 0
  THEN [t |-> [tr EXCEPT !.counter = @ - 1], gate |-> "counter", ops |-> <<>>,
        fired |-> AsTrack_listen(tr), entry |-> tr]
  ELSE LET t1 == [tr EXCEPT !.counter = AsU8(tr.ticks),
                            !.sentSyscall = FALSE,
                            !.sentPlay = FALSE]
       IN  IF t1.wait > 0
           THEN [t |-> [t1 EXCEPT !.wait = @ - 1], gate |-> "wait", ops |-> <<>>,
                 fired |-> AsTrack_listen(tr), entry |-> t1]
           ELSE Decoded(t1, AsTrack_loop(mem, t1, AsTrack_listen(tr)))

-----------------------------------------------------------------------------
(* lib/bitmap.d.ts, lines 576-634: the instruction formats the opcode      *)
(* constants document (`set(u8)`, `jump(u16/little-endian)`, ...).         *)

AsEmit(c) ==
  LET b8  == <<c.v % 256>>
      b16 == <<c.v % 256, (c.v \div 256) % 256>>
  IN
  CASE c.op = "nop"        -> <<TRACK_OPCODE_NOP>>
    [] c.op = "halt"       -> <<TRACK_OPCODE_HALT>>
    [] c.op = "jump"       -> <<TRACK_OPCODE_JUMP>> \o b16
    [] c.op = "ifjump"     -> <<TRACK_OPCODE_IFJUMP>> \o b16
    [] c.op = "ifnotjump"  -> <<TRACK_OPCODE_IFNOTJUMP>> \o b16
    [] c.op = "syscall"    -> <<TRACK_OPCODE_SYSCALL>> \o b16
    [] c.op = "set"        -> <<TRACK_OPCODE_SET>> \o b8
    [] c.op = "add"        -> <<TRACK_OPCODE_ADD>> \o b8
    [] c.op = "sub"        -> <<TRACK_OPCODE_SUB>> \o b8
    [] c.op = "equal"      -> <<TRACK_OPCODE_EQUAL>> \o b8
    [] c.op = "lt"         -> <<TRACK_OPCODE_LT>> \o b8
    [] c.op = "gt"         -> <<TRACK_OPCODE_GT>> \o b8
    [] c.op = "ltequal"    -> <<TRACK_OPCODE_LTEQUAL>> \o b8
    [] c.op = "gtequal"    -> <<TRACK_OPCODE_GTEQUAL>> \o b8
    [] c.op = "ticks"      -> <<TRACK_OPCODE_TICKS>> \o b8
    [] c.op = "ticks16"    -> <<TRACK_OPCODE_TICKS16>> \o b16
    [] c.op = "wait"       -> <<TRACK_OPCODE_WAIT>> \o b8
    [] c.op = "wait16"     -> <<TRACK_OPCODE_WAIT16>> \o b16
    [] c.op = "instrument" -> <<TRACK_OPCODE_INSTRUMENT>> \o b8
    [] c.op = "play"       -> <<TRACK_OPCODE_PLAY>> \o b8
    [] c.op = "db"         -> b8

AsAssemble(cs) == Flatten([i \in 1..Len(cs) |-> AsEmit(cs[i])])

-----------------------------------------------------------------------------
(* The programs the Track runs.                                            *)

I(op, v) == [op |-> op, v |-> v]

\* Instructions common to both revisions, with the operands the runs use.
Catalogue ==
  { I("nop", 0), I("halt", 0), I("jump", 0), I("jump", 3),
    I("ifjump", 5), I("ifnotjump", 5), I("syscall", 7),
    I("set", 200), I("add", 100), I("sub", 128),
    I("equal", 0), I("lt", 1), I("gt", 0), I("ltequal", 0), I("gtequal", 1),
    I("ticks", 3), I("ticks16", 2), I("wait", 2), I("wait16", 1),
    I("instrument", 1), I("play", 60) }

\* reset() exists only in the assembler of tinysprite.track.js.
JsCatalogue == Catalogue \cup { I("reset", 0) }

\* A raw byte below the opcode range (an implicit note).
AsCatalogue == Catalogue \cup { I("db", 10) }

SeqsUpTo(S, n) == UNION { [1..k -> S] : k \in 0..n }

\* SET 5; ADD 3; EQUAL 8; IFJUMP to the PLAY that follows a HALT.
ChainProgram ==
  <<I("set", 5), I("add", 3), I("equal", 8), I("ifjump", 10), I("halt", 0),
    I("play", 60), I("halt", 0)>>

\* A jump into the operand of the PLAY after it: the byte 60 is read as an opcode.
NoteProgram == <<I("jump", 4), I("play", 60)>>

\* A tick rate that needs both bytes of the TICKS16 operand.
SlowProgram == <<I("ticks16", 300), I("play", 60)>>

\* Longer programs: the scenarios of the specification's testable properties.
Scenarios ==
  { <<I("ticks", 3), I("play", 60), I("play", 61)>>,
    ChainProgram,
    NoteProgram,
    SlowProgram,
    <<I("set", 200), I("add", 100), I("equal", 44), I("ifjump", 0)>>,
    <<I("sub", 1), I("gtequal", 1), I("ifnotjump", 0), I("play", 60)>>,
    <<I("equal", 0), I("ifnotjump", 9), I("play", 60), I("halt", 0)>>,
    <<I("ticks", 1), I("syscall", 7), I("wait", 1), I("halt", 0)>> }

JsPrograms == SeqsUpTo(JsCatalogue, MaxInstr) \cup Scenarios

AsPrograms == SeqsUpTo(AsCatalogue, MaxInstr) \cup Scenarios

\* update() is not called again once the cursor is this far.
MaxCursor == 12

\* update() is not called again once the (unwrapped) JavaScript register is
\* this far from zero.
MaxRegister == 512

-----------------------------------------------------------------------------
(* The Track specification: a host that builds a program, constructs a     *)
(* Track at its start and calls update() (and, in JavaScript, reset()).    *)

NoCall == [fn |-> "none"]

NoGrid == [w |-> 0, h |-> 0, format |-> 0]

NoGop == [op |-> "none"]

Obs(before, entry, gate, ops, fired) ==
  [before |-> before, entry |-> entry, gate |-> gate, ops |-> ops, fired |-> fired]

NoLog == [n |-> <<>>, fired |-> <<>>]

NoScene == [children |-> <<>>, _created |-> FALSE]

NoEvents == [loops |-> 0]

\* No Scene is run.
NoStage == scene = NoScene /\ sprites = <<>> /\ events = NoEvents

Others ==
  /\ call = NoCall
  /\ grid = NoGrid
  /\ gmem = <<>>
  /\ gop = NoGop
  /\ tracks = <<>>
  /\ log = NoLog
  /\ NoStage

Init ==
  /\ \/ rev = "js" /\ src \in JsPrograms /\ bytecode = Assemble(src)
     \/ rev = "as" /\ src \in AsPrograms /\ bytecode = AsAssemble(src)
  /\ t = Track_new(0)
  /\ obs = Obs(Track_new(0), Track_new(0), "new", <<>>, <<>>)
  /\ Others

\* Track.update() of tinysprite.track.js.
Update ==
  /\ rev = "js"
  /\ t.cursor < MaxCursor
  /\ Abs(t.register) < MaxRegister
  /\ \E r \in {Track_update(bytecode, t)} :
       /\ t' = r.t
       /\ obs' = Obs(t, r.entry, r.gate, r.ops, r.fired)
  /\ UNCHANGED <<rev, src, bytecode, call, grid, gmem, gop, tracks, log,
               scene, sprites, events>>

\* Track.update() of lib/bitmap.d.ts.
AsUpdate ==
  /\ rev = "as"
  /\ t.cursor < MaxCursor
  /\ \E r \in {AsTrack_update(bytecode, t)} :
       /\ t' = r.t
       /\ obs' = Obs(t, r.entry, r.gate, r.ops, r.fired)
  /\ UNCHANGED <<rev, src, bytecode, call, grid, gmem, gop, tracks, log,
               scene, sprites, events>>

\* reset() that leaves the halt request standing.
Track_reset_keepsHalt(tr) ==
  [tr EXCEPT !.cursor = u16(0), !.counter = u16(0), !.register = u8(0),
             !.accumulator = FALSE, !.instrument = u8(0), !.note = u8(0),
             !.syscode = u16(0), !.ticks = u16(0), !.wait = u16(0),
             !.sentSyscall = FALSE, !.sentPlay = FALSE]

\* Track.reset() of tinysprite.track.js: the twelve assignments; `data` is
\* not assigned.
Track_reset(tr) ==
  [tr EXCEPT !.cursor = u16(0), !.counter = u16(0), !.register = u8(0),
             !.accumulator = FALSE, !.instrument = u8(0), !.note = u8(0),
             !.syscode = u16(0), !.ticks = u16(0), !.wait = u16(0),
             !.sentHalt = FALSE, !.sentSyscall = FALSE, !.sentPlay = FALSE]

Reset ==
  /\ rev = "js"
  /\ t' = Track_reset(t)
  /\ obs' = Obs(t, t, "reset", <<>>, <<>>)
  /\ UNCHANGED <<rev, src, bytecode, call, grid, gmem, gop, tracks, log,
               scene, sprites, events>>

Next == Update \/ AsUpdate \/ Reset

Spec == Init /\ [][Next]_vars

-----------------------------------------------------------------------------
(* Properties of the Track.                                                *)

\* Number of elements of the sequence q that satisfy P.
CountIn(q, P(_)) == Cardinality({ i \in 1..Len(q) : P(q[i]) })

IsRequest(f) == f.cb \in {"play", "syscall"}

IsRequestOp(o) == o.op \in {"play", "note", "syscall"}

\* The bytes of the k-th instruction of the program, in the running revision.
BytesOf(k) == IF rev = "js" THEN Emit(src[k]) ELSE AsEmit(src[k])

\* Offset of the first byte of the k-th instruction of the program.
Start(k) == IF rev = "js" THEN StartOf(src, k)
            ELSE Len(AsAssemble(SubSeq(src, 1, k - 1)))

\* C1: a PLAY, implicit-note or SYSCALL instruction fires its callback exactly
\* once, in the update() call that decodes it: every update() call fires as
\* many play/syscall callbacks as it decodes such instructions, so a call that
\* only counts `counter` down fires none.
C1_FiresOnlyWhenDecoded ==
  CountIn(obs.fired, IsRequest) = CountIn(obs.ops, IsRequestOp)

\* An update() of either revision.
UpdateStep == Update \/ AsUpdate

\* C2: once HALT has executed, no later update() call changes any field of the
\* Track, decodes an instruction or fires play/syscall.
C2_HaltIsPermanent ==
  [][(t.sentHalt /\ UpdateStep) =>
       /\ t' = t
       /\ obs'.ops = <<>>
       /\ CountIn(obs'.fired, IsRequest) = 0]_vars

\* A halted Track was updated again with program bytes still ahead of it.
C2_Witness ==
  /\ t.sentHalt
  /\ obs.gate = "halt"
  /\ t.cursor < Len(bytecode)

\* C3: an instruction emitted by a builder of tinysprite.track.js is decoded
\* by Track.update() of that module as the operation of the builder's name:
\* whenever the cursor is at the first byte of an emitted instruction, the
\* dispatch is that instruction's, never an implicit note or another opcode.
C3_DecodesAsBuilt ==
  rev = "js" =>
    \A i \in 1..Len(obs.ops) : \A k \in 1..Len(src) :
      Start(k) = obs.ops[i].at => obs.ops[i].op = src[k].op

\* C5: an instruction that takes no jump advances the cursor by exactly the
\* number of bytes emitted for it, not-taken IFJUMP and IFNOTJUMP included.
C5_AdvancesByLength ==
  \A i \in 1..Len(obs.ops) : \A k \in 1..Len(src) :
    (Start(k) = obs.ops[i].at /\ ~obs.ops[i].jumped)
      => obs.ops[i].next = obs.ops[i].at + Len(BytesOf(k))

\* C6: every update() call returns after at most 255 dispatches.
C6_AtMost255Dispatches == Len(obs.ops) <= 255

\* An update() call that was cut off by the guard: 255 zero-tick dispatches.
C6_Witness == obs.gate = "decode" /\ Len(obs.ops) = 255

\* C7: ADD and SUB wrap to 8 bits, so the register is always within 0..255.
C7_RegisterIsByte == t.register \in 0..255

-----------------------------------------------------------------------------
(* The assembler's 16-bit operands against the loader: one builder call on *)
(* an empty `bytecode`, then loadu16 at the operand (offset 1).            *)

\* The 16-bit values.
Words == 0..65535

TrackIdle ==
  /\ rev = "js"
  /\ src = <<>>
  /\ t = Track_new(0)
  /\ obs = Obs(Track_new(0), Track_new(0), "new", <<>>, <<>>)

InitAsm ==
  /\ TrackIdle
  /\ bytecode = <<>>
  /\ Others

\* The builder named fn pushes `bytes`; the loader then reads the operand.
Built(fn, value, bytes) ==
  /\ bytecode' = bytes
  /\ call' = [fn |-> fn, arg |-> value, loaded |-> loadu16(bytes, 1)]
  /\ UNCHANGED <<rev, src, t, obs, grid, gmem, gop, tracks, log, scene, sprites, events>>

CallJump == bytecode = <<>> /\ \E value \in Words : Built("jump", value, jump(value))

CallIfjump == bytecode = <<>> /\ \E value \in Words : Built("ifjump", value, ifjump(value))

CallIfnotjump == bytecode = <<>> /\ \E value \in Words : Built("ifnotjump", value, ifnotjump(value))

CallSyscall == bytecode = <<>> /\ \E value \in Words : Built("syscall", value, syscall(value))

CallTicks16 == bytecode = <<>> /\ \E value \in Words : Built("ticks16", value, ticks16(value))

CallWait16 == bytecode = <<>> /\ \E value \in Words : Built("wait16", value, wait16(value))

NextAsm ==
  CallJump \/ CallIfjump \/ CallIfnotjump \/ CallSyscall \/ CallTicks16 \/ CallWait16

SpecAsm == InitAsm /\ [][NextAsm]_vars

\* C4: the two operand bytes emitted by jump, ifjump, ifnotjump, syscall,
\* ticks16 and wait16 for a 16-bit value are read back by loadu16 as that value.
C4_WordReadBack ==
  call.fn \in {"jump", "ifjump", "ifnotjump", "syscall", "ticks16", "wait16"}
    => call.loaded = call.arg

-----------------------------------------------------------------------------
(* tinysprite.ts, namespace util: the split / join functions.              *)
(* All values are u8; StaticArray<u8> elements are stored as u8.           *)

\* Bitwise AND of two naturals.
RECURSIVE BitAnd(_, _)
BitAnd(a, b) ==
  IF a = 0 \/ b = 0 THEN 0
  ELSE ((a % 2) * (b % 2)) + (2 * BitAnd(a \div 2, b \div 2))

\* a >> n
Shr(a, n) == a \div (2 ^ n)

\* The i32 remainder: the sign of the dividend.
Rem(a, b) == IF a >= 0 THEN a % b ELSE -((-a) % b)

\* result[i] = (value >> (7 - i)) & 1, for i = 0..7
splitBits(value) == [i \in 1..8 |-> BitAnd(Shr(value, 7 - (i - 1)), 1)]

\* The loop of joinBits from index i down: result += array[i] * pow; pow /= 2.
RECURSIVE joinBits_loop(_, _, _, _)
joinBits_loop(array, i, result, pow) ==
  IF ~(i > 0) THEN result
  ELSE joinBits_loop(array, i - 1, AsU8(result + (array[i + 1] * pow)), pow \div 2)

\* result = array[7]; pow = 128; for(i = 7; i > 0; i -= 1) ...
joinBits(array) == joinBits_loop(array, 7, array[8], 128)

\* The loop of splitHalfNibbles from index i on, with its pow and shift.
RECURSIVE splitHalfNibbles_loop(_, _, _, _, _)
splitHalfNibbles_loop(value, i, result, pow, shift) ==
  IF ~(i < 4) THEN result
  ELSE splitHalfNibbles_loop(value, i + 1,
                             Append(result, Shr(BitAnd(value, pow), shift)),
                             pow \div 4, AsU8(shift - 2))

\* pow = 192; shift = 6; result[i] = (value & pow) >> shift
splitHalfNibbles(value) == splitHalfNibbles_loop(value, 0, <<>>, 192, 6)

\* hi = (array[0] * 4) + array[1]; lo = (array[2] * 4) + array[3]; (hi * 16) + lo
joinHalfNibbles(array) ==
  LET hi == AsU8((array[1] * 4) + array[2])
      lo == AsU8((array[3] * 4) + array[4])
  IN  AsU8((hi * 16) + lo)

\* The low nibble first.
splitNibbles_lowFirst(value) == <<BitAnd(value, 15), Shr(value, 4)>>

\* [(value >> 4), (value & 15)]
splitNibbles(value) == <<Shr(value, 4), BitAnd(value, 15)>>

\* (array[0] * 16) + array[1]
joinNibbles(array) == AsU8((array[1] * 16) + array[2])

\* The byte values.
Bytes == 0..255

InitCodec ==
  /\ TrackIdle
  /\ bytecode = <<>>
  /\ Others

\* A byte split by `split` and joined again by `join`.
Joined(fn, value, parts, result) ==
  /\ call' = [fn |-> fn, arg |-> value, parts |-> parts, result |-> result]
  /\ UNCHANGED <<rev, src, bytecode, t, obs, grid, gmem, gop, tracks, log,
               scene, sprites, events>>

CallBits ==
  /\ call = NoCall
  /\ \E value \in Bytes :
       Joined("bits", value, splitBits(value), joinBits(splitBits(value)))

CallHalfNibbles ==
  /\ call = NoCall
  /\ \E value \in Bytes :
       Joined("halfNibbles", value, splitHalfNibbles(value),
              joinHalfNibbles(splitHalfNibbles(value)))

CallNibbles ==
  /\ call = NoCall
  /\ \E value \in Bytes :
       Joined("nibbles", value, splitNibbles(value), joinNibbles(splitNibbles(value)))

\* The elements passed to join for fields of `bits` bits: in the field's range,
\* then the first value past it and the largest u8.
Elements(bits) == {0, 1, (2 ^ bits) - 1, 2 ^ bits, 255}

\* Every element reduced to the field's range.
Reduced(array, bits) == [i \in DOMAIN array |-> array[i] % (2 ^ bits)]

\* join called on an array, and on the same array reduced to the field's range.
JoinedArray(fn, array, result, reduced) ==
  /\ call' = [fn |-> fn, arg |-> array, result |-> result, reduced |-> reduced]
  /\ UNCHANGED <<rev, src, bytecode, t, obs, grid, gmem, gop, tracks, log,
               scene, sprites, events>>

CallJoinNibbles ==
  /\ call = NoCall
  /\ \E array \in [1..2 -> Elements(4)] :
       JoinedArray("joinNibbles", array, joinNibbles(array),
                   joinNibbles(Reduced(array, 4)))

CallJoinHalfNibbles ==
  /\ call = NoCall
  /\ \E array \in [1..4 -> Elements(2)] :
       JoinedArray("joinHalfNibbles", array, joinHalfNibbles(array),
                   joinHalfNibbles(Reduced(array, 2)))

CallJoinBits ==
  /\ call = NoCall
  /\ \E array \in [1..8 -> Elements(1)] :
       JoinedArray("joinBits", array, joinBits(array), joinBits(Reduced(array, 1)))

NextCodec ==
  \/ CallJoinNibbles
  \/ CallJoinHalfNibbles
  \/ CallJoinBits
  \/ CallBits
  \/ CallHalfNibbles
  \/ CallNibbles

SpecCodec == InitCodec /\ [][NextCodec]_vars

\* C8: join(split(b)) = b for every byte b and each field width: joinBits of
\* splitBits, joinHalfNibbles of splitHalfNibbles, joinNibbles of splitNibbles.
C8_JoinSplitRoundTrip ==
  call.fn \in {"bits", "halfNibbles", "nibbles"} => call.result = call.arg

-----------------------------------------------------------------------------
(* tinysprite.ts, region <grid.ts>: GridFormat and DataGrid.               *)
(* x, y and value are i32; `/` and `%` on them truncate toward zero.       *)

\* enum GridFormat: the value is the number of fields in a byte.
GridFormat == [Bits |-> 8, HalfNibbles |-> 4, Nibbles |-> 2]

\* The i32 division, for a positive divisor.
Quot(a, b) == IF a >= 0 THEN a \div b ELSE -((-a) \div b)

\* A store into a u8: the low 8 bits.
ToU8(x) == x % 256

\* load<u8>(this.offset + offset)
gridLoad(mem, offset) == mem[offset + 1]

\* store<u8>(this.offset + offset, content)
gridStore(mem, offset, content) == [mem EXCEPT ![offset + 1] = content]

\* chunk[index] = value, on a StaticArray<u8>
Put(chunk, index, value) == [chunk EXCEPT ![index + 1] = value]

\* The last row taken as one further: y <= h.
within_rowAfter(g, x, y) == (x >= 0 /\ x < g.w) /\ (y >= 0 /\ y <= g.h)

\* within(x, y)
within(g, x, y) == (x >= 0 /\ x < g.w) /\ (y >= 0 /\ y < g.h)

\* The height taken for the width in the row stride.
gridOffset_byHeight(g, x, y) == (y * Quot(g.h, g.format)) + Quot(x, g.format)

\* (y * (this.w / this.format)) + (x / this.format)
gridOffset(g, x, y) == (y * Quot(g.w, g.format)) + Quot(x, g.format)

\* getAt(x, y)
getAt(g, mem, x, y) ==
  IF ~within(g, x, y) THEN 0
  ELSE LET offset  == gridOffset(g, x, y)
           index   == Rem(x, g.format)
           content == gridLoad(mem, offset)
       IN  IF g.format = GridFormat.HalfNibbles
             THEN splitHalfNibbles(content)[index + 1]
           ELSE IF g.format = GridFormat.Nibbles
             THEN splitNibbles(content)[index + 1]
           ELSE splitBits(content)[index + 1]

\* The byte setAt stores back: the chunk with one element replaced, joined.
setAt_content(g, content, index, value) ==
  IF g.format = GridFormat.Bits
    THEN joinBits(Put(splitBits(content), index, ToU8(Rem(value, 2))))
  ELSE IF g.format = GridFormat.HalfNibbles
    THEN joinHalfNibbles(Put(splitHalfNibbles(content), 3 - index, ToU8(Rem(value, 4))))
  ELSE IF g.format = GridFormat.Nibbles
    THEN joinNibbles(Put(splitNibbles(content), 1 - index, ToU8(Rem(value, 16))))
  ELSE content

\* setAt(x, y, value): the boolean returned and the memory afterwards.
setAt(g, mem, x, y, value) ==
  IF ~within(g, x, y) THEN [ok |-> FALSE, mem |-> mem]
  ELSE LET offset == gridOffset(g, x, y)
           index  == Abs(Rem(x, g.format))
       IN  [ok  |-> TRUE,
            mem |-> gridStore(mem, offset,
                              setAt_content(g, gridLoad(mem, offset), index, value))]

-----------------------------------------------------------------------------
(* The grid specification: a host that creates a DataGrid over a buffer    *)
(* and calls setAt or getAt on it, once.                                   *)

\* Rows of the grids the runs use.
MaxRows == 2

\* Bits in a field of the format.
FieldBits(format) == 8 \div format

\* The contents a byte of the grid starts with.  The buffer is a region of the
\* linear memory: the byte that follows the grid's last row is there too (165).
Patterns == {0, 255, 27, 165}

\* The values passed to setAt: in the field's range, then around its ends.
ValuesFor(format) ==
  <<0, 1, (2 ^ FieldBits(format)) - 1, 2 ^ FieldBits(format),
    (2 ^ FieldBits(format)) + 1, -1>>

InitGrid ==
  /\ TrackIdle
  /\ bytecode = <<>>
  /\ call = NoCall
  /\ \E f \in {GridFormat.Bits, GridFormat.HalfNibbles, GridFormat.Nibbles},
        h \in 1..MaxRows :
       /\ grid = [w |-> f, h |-> h, format |-> f]
       /\ gmem \in { m \o <<165>> : m \in [1..h -> Patterns] }
  /\ gop = [op |-> "new"]
  /\ tracks = <<>>
  /\ log = NoLog
  /\ NoStage

\* DataGrid.setAt(x, y, value), at coordinates in and around the grid.
SetAt ==
  /\ gop.op = "new"
  /\ \E x \in -1..grid.w, y \in -1..grid.h, i \in 1..Len(ValuesFor(grid.format)) :
       \E r \in {setAt(grid, gmem, x, y, ValuesFor(grid.format)[i])} :
         /\ gmem' = r.mem
         /\ gop' = [op |-> "setAt", x |-> x, y |-> y,
                    value |-> ValuesFor(grid.format)[i], ok |-> r.ok,
                    before |-> gmem]
  /\ UNCHANGED <<rev, src, bytecode, t, obs, call, grid, tracks, log, scene, sprites, events>>

\* DataGrid.getAt(x, y), at coordinates in and around the grid.
GetAt ==
  /\ gop.op = "new"
  /\ \E x \in -1..grid.w, y \in -1..grid.h :
       gop' = [op |-> "getAt", x |-> x, y |-> y,
               result |-> getAt(grid, gmem, x, y)]
  /\ UNCHANGED <<rev, src, bytecode, t, obs, call, grid, gmem, tracks, log,
               scene, sprites, events>>

NextGrid == SetAt \/ GetAt

SpecGrid == InitGrid /\ [][NextGrid]_vars

\* The last operation was an in-bounds setAt of a value in the field's range.
SetInRange ==
  /\ gop.op = "setAt"
  /\ gop.ok
  /\ gop.value \in 0..((2 ^ FieldBits(grid.format)) - 1)

\* C9: an in-bounds setAt(x, y, v) with v in [0, 2^W) followed by getAt(x, y)
\* returns v.
C9_SetThenGet ==
  SetInRange => getAt(grid, gmem, gop.x, gop.y) = gop.value

\* C10: an in-bounds setAt(x, y, v) changes only the addressed field: getAt of
\* every other in-bounds position is what it was before the call.
C10_SetAtFrame ==
  (gop.op = "setAt" /\ gop.ok) =>
    \A x \in 0..(grid.w - 1), y \in 0..(grid.h - 1) :
      <<x, y>> # <<gop.x, gop.y>>
        => getAt(grid, gmem, x, y) = getAt(grid, gop.before, x, y)

\* The position (x, y) is outside the grid.
Outside(x, y) == x < 0 \/ x >= grid.w \/ y < 0 \/ y >= grid.h

\* C11: getAt at a position outside [0, w) x [0, h) returns 0, and setAt at
\* such a position returns false and leaves every byte of the memory as it was.
C11_OutOfBounds ==
  /\ (gop.op = "getAt" /\ Outside(gop.x, gop.y)) => gop.result = 0
  /\ (gop.op = "setAt" /\ Outside(gop.x, gop.y))
       => (gop.ok = FALSE /\ gmem = gop.before)

\* setAt was called on the row after the last one, where memory is still
\* addressable, and refused.
C11_Witness ==
  /\ gop.op = "setAt"
  /\ gop.x = 0
  /\ gop.y = grid.h
  /\ gop.value = 1
  /\ ~gop.ok

-----------------------------------------------------------------------------
(* Properties of the Track: single instructions and the gates of update(). *)

\* The names of the operations an update() call dispatched, in order.
OpNames == [i \in 1..Len(obs.ops) |-> obs.ops[i].op]

\* The last call was an update() that entered the decode loop.
Decoding == obs.gate = "decode"

\* C12: on a fresh Track, SET 5; ADD 3; EQUAL 8; IFJUMP addr runs within one
\* update() call: the accumulator is true afterwards, the jump is taken to
\* addr, and decoding goes on at addr in that same call (the PLAY there is
\* decoded and fires).
C12_ZeroTickChain ==
  (src = ChainProgram /\ Decoding /\ obs.before = Track_new(0)) =>
    /\ OpNames = <<"set", "add", "equal", "ifjump", "play">>
    /\ t.accumulator = TRUE
    /\ obs.ops[4].jumped
    /\ obs.ops[4].next = Start(6)
    /\ obs.ops[5].at = Start(6)
    /\ obs.fired = <<Cb("play", 60)>>
    /\ t.cursor = Start(6) + 2

\* The chain ran, in the JavaScript Track.
C12_Witness ==
  /\ rev = "js"
  /\ src = ChainProgram
  /\ Decoding
  /\ obs.before = Track_new(0)
  /\ t.note = 60

\* The byte of the program at an offset, as the running revision loads it.
ByteAt(offset) ==
  IF rev = "js" THEN loadu8(bytecode, offset) ELSE load_u8(bytecode, offset)

\* The opcode values of the running revision.
Opcodes ==
  IF rev = "js" THEN { Opcode[f] : f \in DOMAIN Opcode }
  ELSE { TRACK_OPCODE_NOP, TRACK_OPCODE_HALT, TRACK_OPCODE_JUMP,
         TRACK_OPCODE_IFJUMP, TRACK_OPCODE_IFNOTJUMP, TRACK_OPCODE_SYSCALL,
         TRACK_OPCODE_SET, TRACK_OPCODE_ADD, TRACK_OPCODE_SUB,
         TRACK_OPCODE_EQUAL, TRACK_OPCODE_LT, TRACK_OPCODE_GT,
         TRACK_OPCODE_LTEQUAL, TRACK_OPCODE_GTEQUAL, TRACK_OPCODE_TICKS,
         TRACK_OPCODE_TICKS16, TRACK_OPCODE_WAIT, TRACK_OPCODE_WAIT16,
         TRACK_OPCODE_INSTRUMENT, TRACK_OPCODE_PLAY }

\* C13: a byte at the cursor that is no opcode sets note to that byte, sets
\* sentPlay, fires play with that byte, advances the cursor by exactly 1 and
\* ends the cycle (it is the last dispatch of its update() call).
C13_ImplicitNote ==
  \A i \in 1..Len(obs.ops) :
    ByteAt(obs.ops[i].at) \notin Opcodes =>
      /\ obs.ops[i].op = "note"
      /\ i = Len(obs.ops)
      /\ obs.ops[i].next = obs.ops[i].at + 1
      /\ t.cursor = obs.ops[i].at + 1
      /\ t.note = ByteAt(obs.ops[i].at)
      /\ t.sentPlay
      /\ obs.fired # <<>>
      /\ obs.fired[Len(obs.fired)] = Cb("play", ByteAt(obs.ops[i].at))

\* The byte 60 was decoded as a note by the JavaScript Track.
C13_Witness ==
  /\ rev = "js"
  /\ src = NoteProgram
  /\ Decoding
  /\ OpNames = <<"jump", "note">>
  /\ t.note = 60

\* The callbacks update() fired on entry, before the gates: the requests the
\* AssemblyScript Track repeats from the flags of the cycle before.
EntryFired == IF rev = "as" /\ obs.gate # "halt" THEN AsTrack_listen(obs.before) ELSE <<>>

\* The callbacks fired by the dispatches of the decode loop.
DecodeFired == SubSeq(obs.fired, Len(EntryFired) + 1, Len(obs.fired))

\* A conditional jump that was decoded and not taken.
NotTaken(o) == o.op \in {"ifjump", "ifnotjump"} /\ ~o.jumped

\* C14: IFJUMP decoded with the accumulator false, or IFNOTJUMP with it true,
\* advances the cursor by 2 and ends the cycle: it is the last dispatch of its
\* update() call and the decode loop of that call fires no callback.
C14_NotTakenEndsCycle ==
  \A i \in 1..Len(obs.ops) :
    NotTaken(obs.ops[i]) =>
      /\ i = Len(obs.ops)
      /\ obs.ops[i].next = obs.ops[i].at + 2
      /\ t.cursor = obs.ops[i].at + 2
      /\ t.accumulator = (obs.ops[i].op = "ifnotjump")
      /\ DecodeFired = <<>>

\* An IFNOTJUMP was decoded with the accumulator true, after an EQUAL.
C14_Witness ==
  /\ rev = "js"
  /\ Decoding
  /\ OpNames = <<"equal", "ifnotjump">>
  /\ NotTaken(obs.ops[2])

\* C15: in each revision, TICKS v sets ticks (the tick rate) and counter to v,
\* advances the cursor by 2 and ends the cycle: it is the last dispatch of its
\* update() call, so the instruction after it is not decoded in that call.
C15_TicksEndsCycle ==
  \A i \in 1..Len(obs.ops) :
    obs.ops[i].op = "ticks" =>
      /\ i = Len(obs.ops)
      /\ obs.ops[i].next = obs.ops[i].at + 2
      /\ t.ticks = ByteAt(obs.ops[i].at + 1)
      /\ t.counter = ByteAt(obs.ops[i].at + 1)

\* The 16-bit operand at an offset, as the running revision loads it.
WordAt(offset) ==
  IF rev = "js" THEN loadu16(bytecode, offset) ELSE load_u16(bytecode, offset)

\* C16: after TICKS16 v, counter = ticks = v for every 16-bit v; every later
\* cycle resets counter to that v (unless it sets a new rate), and each call
\* between two cycles counts it down by one: v idle calls separate two decode
\* phases.
C16_Ticks16Counter ==
  /\ \A i \in 1..Len(obs.ops) :
       obs.ops[i].op = "ticks16" =>
         /\ t.ticks = WordAt(obs.ops[i].at + 1)
         /\ t.counter = WordAt(obs.ops[i].at + 1)
  /\ (obs.gate \in {"wait", "decode"}
        /\ \A i \in 1..Len(obs.ops) : obs.ops[i].op \notin {"ticks", "ticks16"})
       => (t.counter = t.ticks /\ t.ticks = obs.before.ticks)
  /\ obs.gate = "counter"
       => (t.counter = obs.before.counter - 1 /\ t.ticks = obs.before.ticks)

\* The last call was an update().
Updated == obs.gate \in {"halt", "counter", "wait", "decode"}

\* The last call was an update() that passed the halt and counter gates.
PassedGates == Updated /\ ~obs.before.sentHalt /\ ~(obs.before.counter > 0)

\* C17: an update() that passes the halt and counter gates with wait > 0
\* decrements wait by exactly one and returns without decoding: the cursor is
\* unchanged, nothing is dispatched and no callback fires.
C17_WaitGate ==
  (PassedGates /\ obs.before.wait > 0) =>
    /\ obs.gate = "wait"
    /\ t.wait = obs.before.wait - 1
    /\ t.cursor = obs.before.cursor
    /\ obs.ops = <<>>
    /\ obs.fired = <<>>

\* A wait period of 2 was counted down to 1 by the JavaScript Track.
C17_Witness ==
  /\ rev = "js"
  /\ PassedGates
  /\ obs.before.wait = 2
  /\ t.wait = 1

\* C18: an update() that passes the halt and counter gates sets counter to
\* ticks (the tick rate) and clears sentSyscall and sentPlay before the wait
\* gate and before any decoding: the fields the wait gate and the decode loop
\* start from have counter = ticks and both flags false, and are otherwise the
\* fields update() was called with.
C18_NewCycle ==
  PassedGates =>
    /\ obs.gate \in {"wait", "decode"}
    /\ obs.entry.counter = obs.before.ticks
    /\ obs.entry.sentSyscall = FALSE
    /\ obs.entry.sentPlay = FALSE
    /\ obs.entry = [obs.before EXCEPT !.counter = obs.entry.counter,
                                      !.sentSyscall = FALSE,
                                      !.sentPlay = FALSE]
    /\ (obs.gate = "wait") => (~t.sentSyscall /\ ~t.sentPlay)

\* A callback is a call of halt().
IsHalt(f) == f.cb = "halt"

\* The last update() executed a HALT instruction.
HaltDecoded == \E i \in 1..Len(obs.ops) : obs.ops[i].op = "halt"

\* C19: halt() fires in the update() call that executes HALT and exactly once
\* in every update() call after it: a call fires halt() once if the Track was
\* halted before it or it executed HALT, and the Track is halted after it; any
\* other call does not fire halt().
C19_HaltEveryUpdate ==
  Updated =>
    IF obs.before.sentHalt \/ HaltDecoded
    THEN CountIn(obs.fired, IsHalt) = 1 /\ t.sentHalt
    ELSE CountIn(obs.fired, IsHalt) = 0 /\ ~t.sentHalt

\* A Track that was already halted was updated and fired halt() again.
C19_Witness ==
  /\ rev = "js"
  /\ obs.before.sentHalt
  /\ obs.gate = "halt"
  /\ obs.fired = <<Cb("halt", 0)>>

-----------------------------------------------------------------------------
(* Properties of the codec: join on elements outside the field's range.    *)

\* C20: join reduces each element modulo 2^W: join of an array equals join of
\* the array with every element reduced modulo 2^W, so an element outside the
\* range does not alter another field of the byte.
C20_JoinReduces ==
  call.fn \in {"joinBits", "joinHalfNibbles", "joinNibbles"}
    => call.result = call.reduced

-----------------------------------------------------------------------------
(* Properties of the grid: values outside the field's range.               *)

\* C21: an in-bounds setAt(x, y, value), for any integer value (negative, or
\* 2^W and above), leaves value mod 2^W, a number in [0, 2^W), in the field at
\* (x, y).
C21_SetAtReduces ==
  (gop.op = "setAt" /\ gop.ok) =>
    /\ getAt(grid, gmem, gop.x, gop.y) = gop.value % (2 ^ FieldBits(grid.format))
    /\ getAt(grid, gmem, gop.x, gop.y) \in 0..((2 ^ FieldBits(grid.format)) - 1)

-----------------------------------------------------------------------------
(* Properties of the codec: the order and range of the fields of split.    *)

\* Width in bits of the fields of the split function named fn.
WidthOf(fn) == IF fn = "bits" THEN 1 ELSE IF fn = "halfNibbles" THEN 2 ELSE 4

\* C22: split(b) returns exactly 8/W integers, most significant field first:
\* element i (from 0) is (b >> (8 - W*(i+1))) mod 2^W, a number in [0, 2^W).
C22_SplitMsbFirst ==
  call.fn \in {"bits", "halfNibbles", "nibbles"} =>
    /\ Len(call.parts) = 8 \div WidthOf(call.fn)
    /\ \A i \in 0..(Len(call.parts) - 1) :
         /\ call.parts[i + 1] =
              (call.arg \div (2 ^ (8 - (WidthOf(call.fn) * (i + 1)))))
                % (2 ^ WidthOf(call.fn))
         /\ call.parts[i + 1] \in 0..((2 ^ WidthOf(call.fn)) - 1)

\* 0x1B was split into nibbles: 1, then 11.
C22_Witness ==
  /\ call.fn = "nibbles"
  /\ call.arg = 27
  /\ call.parts = <<1, 11>>

-----------------------------------------------------------------------------
(* The assembler's 8-bit operands: one call of a builder with an 8-bit     *)
(* operand, or of db, on an empty `bytecode`.                              *)

\* Largest operand handed to a builder; the negative ones reach -MaxOperand.
MaxOperand == 300

Operands == (0 - MaxOperand)..MaxOperand

\* The builders whose operand is pushed as u8(value).
ByteBuilders ==
  {"set", "add", "sub", "equal", "lt", "gt", "ltequal", "gtequal",
   "ticks", "wait", "instrument", "play"}

\* The builder named fn pushes `bytes`, the last of which is the operand.
Built8(fn, value, bytes) ==
  /\ bytecode' = bytes
  /\ call' = [fn |-> fn, arg |-> value, operand |-> bytes[Len(bytes)]]
  /\ UNCHANGED <<rev, src, t, obs, grid, gmem, gop, tracks, log, scene, sprites, events>>

CallBuilder8 ==
  /\ bytecode = <<>>
  /\ \E fn \in ByteBuilders, value \in Operands :
       Built8(fn, value, Emit(I(fn, value)))

CallDb ==
  /\ bytecode = <<>>
  /\ \E value \in Operands : Built8("db", value, db(<<0, value>>))

NextBytes == CallBuilder8 \/ CallDb

SpecBytes == InitAsm /\ [][NextBytes]_vars

\* C23: for every integer v, set, add, sub, equal, lt, gt, ltequal, gtequal,
\* ticks, wait, instrument, play and db emit v mod 256, a number in 0..255, as
\* the operand byte.
C23_OperandReduced ==
  call.fn \in (ByteBuilders \cup {"db"}) =>
    /\ call.operand = call.arg % 256
    /\ call.operand \in 0..255

-----------------------------------------------------------------------------
(* The assembler's 16-bit value helper: one call of u16 or usize.          *)

\* The helper named fn is called with `value` and returns `result`.
Converted(fn, value, result) ==
  /\ call' = [fn |-> fn, arg |-> value, result |-> result]
  /\ UNCHANGED <<rev, src, bytecode, t, obs, grid, gmem, gop, tracks, log,
               scene, sprites, events>>

CallU16 == call = NoCall /\ \E value \in Words : Converted("u16", value, u16(value))

CallUsize == call = NoCall /\ \E value \in Words : Converted("usize", value, usize(value))

NextWord == CallU16 \/ CallUsize

SpecWord == InitAsm /\ [][NextWord]_vars

\* C27: u16(v) swaps the two bytes of a 16-bit value: for every v in 0..65535,
\* u16(v) = (v mod 256) * 256 + floor(v / 256); u16(0xFFAA) = 0xAAFF.
C27_U16SwapsBytes ==
  call.fn = "u16" => call.result = ((call.arg % 256) * 256) + (call.arg \div 256)

-----------------------------------------------------------------------------
(* part_001: BitArray, HalfNibbleArray and NibbleArray. Each is a          *)
(* Uint8Array whose `value` setter spreads a byte over the elements and    *)
(* whose `value` getter packs them again. Elements are 1-based here.       *)

\* set value: this[i] = (value >> (7 - i)) & 1
BitArray_setValue(value) == [i \in 1..8 |-> BitAnd(Shr(value, 8 - i), 1)]

\* get value: this[0] * 128 + this[1] * 64 + ... + this[7]
BitArray_value(this) ==
  ToU8((this[1] * 128) + (this[2] * 64) + (this[3] * 32) + (this[4] * 16)
       + (this[5] * 8) + (this[6] * 4) + (this[7] * 2) + this[8])

\* constructor: super(8); this.value = value
BitArray_new(value) == BitArray_setValue(value)

\* The masked bits stored without shifting them down.
HalfNibbleArray_setValue_unshifted(value) ==
  <<BitAnd(value, 192), BitAnd(value, 48), BitAnd(value, 12), BitAnd(value, 3)>>

\* set value: (value & 0b11000000) >> 6, (value & 0b110000) >> 4,
\* (value & 0b1100) >> 2, (value & 0b11)
HalfNibbleArray_setValue(value) ==
  <<Shr(BitAnd(value, 192), 6), Shr(BitAnd(value, 48), 4),
    Shr(BitAnd(value, 12), 2), BitAnd(value, 3)>>

\* get value: hi = this[0] * 4 + this[1]; lo = this[2] * 4 + this[3];
\* (hi * 0x10) + lo, hi and lo being u8
HalfNibbleArray_value(this) ==
  LET hi == ToU8((this[1] * 4) + this[2])
      lo == ToU8((this[3] * 4) + this[4])
  IN  ToU8((hi * 16) + lo)

\* constructor: super(4); this.value = value
HalfNibbleArray_new(value) == HalfNibbleArray_setValue(value)

\* set value: this[0] = value >> 4; this[1] = value & 0xF
NibbleArray_setValue(value) == <<Shr(value, 4), BitAnd(value, 15)>>

\* get value: (this[0] * 0x10) + this[1]
NibbleArray_value(this) == ToU8((this[1] * 16) + this[2])

\* constructor: super(2); this.value = value
NibbleArray_new(value) == NibbleArray_setValue(value)

\* An array of class `fn` is constructed from `value`; its `value` is read.
Constructed(fn, value, this, result) ==
  /\ call' = [fn |-> fn, arg |-> value, this |-> this, value |-> result]
  /\ UNCHANGED <<rev, src, bytecode, t, obs, grid, gmem, gop, tracks, log,
               scene, sprites, events>>

NewBitArray ==
  /\ call = NoCall
  /\ \E value \in Bytes :
       \E this \in {BitArray_new(value)} :
         Constructed("BitArray", value, this, BitArray_value(this))

NewHalfNibbleArray ==
  /\ call = NoCall
  /\ \E value \in Bytes :
       \E this \in {HalfNibbleArray_new(value)} :
         Constructed("HalfNibbleArray", value, this, HalfNibbleArray_value(this))

NewNibbleArray ==
  /\ call = NoCall
  /\ \E value \in Bytes :
       \E this \in {NibbleArray_new(value)} :
         Constructed("NibbleArray", value, this, NibbleArray_value(this))

NextArray == NewBitArray \/ NewHalfNibbleArray \/ NewNibbleArray

SpecArray == InitCodec /\ [][NextArray]_vars

\* C26: constructing a BitArray, a HalfNibbleArray or a NibbleArray from a byte
\* b and reading its `value` returns b, for every b in 0..255.
C26_ArrayRoundTrip ==
  call.fn \in {"BitArray", "HalfNibbleArray", "NibbleArray"} =>
    call.value = call.arg

\* A HalfNibbleArray was built from 0x1B: the elements are 0, 1, 2, 3.
C26_Witness ==
  /\ call.fn = "HalfNibbleArray"
  /\ call.arg = 27
  /\ call.this = <<0, 1, 2, 3>>
  /\ call.value = 27

-----------------------------------------------------------------------------
(* Bytecode of the assembler of tinysprite.track.js, exported as           *)
(* memory.data<u8> and run by the Track of lib/bitmap.d.ts.                *)

\* Programs of the mnemonics that both revisions have.
ExportPrograms == SeqsUpTo(Catalogue, MaxInstr) \cup Scenarios

InitExport ==
  /\ rev = "as"
  /\ src \in ExportPrograms
  /\ bytecode = Assemble(src)
  /\ t = Track_new(0)
  /\ obs = Obs(Track_new(0), Track_new(0), "new", <<>>, <<>>)
  /\ Others

NextExport == AsUpdate

SpecExport == InitExport /\ [][NextExport]_vars

\* C30: bytecode produced by the assembler of tinysprite.track.js and run by
\* the AssemblyScript Track is decoded there as the same instructions: whenever
\* the cursor is at the first byte of an emitted instruction the dispatch is
\* that instruction's, and the Opcode table and the TRACK_OPCODE_* constants
\* give the mnemonic of every instruction of the program the same byte.
C30_ExportDecodesAsBuilt ==
  obs.gate # "new" =>
    /\ \A i \in 1..Len(obs.ops) : \A k \in 1..Len(src) :
         StartOf(src, k) = obs.ops[i].at => obs.ops[i].op = src[k].op
    /\ \A k \in 1..Len(src) : Emit(src[k])[1] = AsEmit(src[k])[1]

-----------------------------------------------------------------------------
(* Two Tracks of tinysprite.track.js over the same `bytecode`: a host that *)
(* calls update() on either of them, in any order.                         *)

\* update() calls made on each Track of a run.
MaxUpdates == 5

\* Programs of up to one instruction, and the scenarios.
ShortPrograms == SeqsUpTo(JsCatalogue, 1) \cup Scenarios

\* Every field of one Track object written as the field of all of them.
Track_assign_static(ts, i, tr) == [j \in DOMAIN ts |-> tr]

\* this.<field> = ...: the fields written are those of the object `this`.
Track_assign(ts, i, tr) == [ts EXCEPT ![i] = tr]

InitDuo ==
  /\ rev = "js"
  /\ t = Track_new(0)
  /\ obs = Obs(Track_new(0), Track_new(0), "new", <<>>, <<>>)
  /\ src \in ShortPrograms
  /\ bytecode = Assemble(src)
  /\ call = NoCall /\ grid = NoGrid /\ gmem = <<>> /\ gop = NoGop
  /\ NoStage
  /\ tracks = <<Track_new(0), Track_new(0)>>
  /\ log = [n |-> <<0, 0>>, fired |-> << <<>>, <<>> >>]

\* tracks[i].update()
UpdateOf(i) ==
  /\ log.n[i] < MaxUpdates
  /\ \E r \in {Track_update(bytecode, tracks[i])} :
       /\ tracks' = Track_assign(tracks, i, r.t)
       /\ log' = [n |-> [log.n EXCEPT ![i] = @ + 1],
                  fired |-> [log.fired EXCEPT ![i] = r.fired]]
  /\ UNCHANGED <<rev, src, bytecode, t, obs, call, grid, gmem, gop, scene, sprites, events>>

UpdateFirst == UpdateOf(1)

UpdateSecond == UpdateOf(2)

NextDuo == UpdateFirst \/ UpdateSecond

SpecDuo == InitDuo /\ [][NextDuo]_vars

\* A Track that alone runs the program `mem`, after n update() calls: its
\* fields and the callbacks of the last call.
RECURSIVE Alone(_, _)
Alone(mem, n) ==
  IF n = 0 THEN [t |-> Track_new(0), fired |-> <<>>]
  ELSE \* the fields after n - 1 calls, updated once more
       LET r == Track_update(mem, Alone(mem, n - 1).t)
       IN  [t |-> r.t, fired |-> r.fired]

\* C24: update() on one Track changes no field of another Track and never
\* writes the program bytes: under any interleaving of update() calls on two
\* Tracks over the same program, each Track's fields and callbacks after its
\* n-th call are those of a Track that runs the program alone.
C24_TracksAreIndependent ==
  /\ bytecode = Assemble(src)
  /\ \A i \in DOMAIN tracks :
       \E alone \in {Alone(Assemble(src), log.n[i])} :
         /\ tracks[i] = alone.t
         /\ log.fired[i] = alone.fired

\* The two Tracks are at different points of a program that fires a callback:
\* one has played its note, the other has not been updated as often.
C24_Witness ==
  /\ DOMAIN tracks = {1, 2}
  /\ log.n[1] > log.n[2]
  /\ log.n[2] > 0
  /\ tracks[1].cursor > tracks[2].cursor
  /\ log.fired[1] # <<>>
  /\ log.fired[2] = <<>>

-----------------------------------------------------------------------------
(* One Track of each revision over the same program, each assembled with   *)
(* its revision's opcode numbering; the host updates both in every frame.  *)

InitBoth ==
  /\ rev = "both"
  /\ t = Track_new(0)
  /\ obs = Obs(Track_new(0), Track_new(0), "new", <<>>, <<>>)
  /\ src \in ExportPrograms
  /\ bytecode = Assemble(src)
  /\ call = NoCall /\ grid = NoGrid /\ gmem = <<>> /\ gop = NoGop
  /\ NoStage
  /\ tracks = <<Track_new(0), Track_new(0)>>
  /\ log = [n |-> <<0, 0>>, fired |-> << <<>>, <<>> >>]

\* tracks[1].update() of tinysprite.track.js, tracks[2].update() of bitmap.d.ts.
UpdateBoth ==
  /\ rev = "both"
  /\ log.n[1] < MaxUpdates
  /\ \E js \in {Track_update(bytecode, tracks[1])} :
       \E as \in {AsTrack_update(AsAssemble(src), tracks[2])} :
         /\ tracks' = <<js.t, as.t>>
         /\ log' = [n |-> <<log.n[1] + 1, log.n[2] + 1>>,
                    fired |-> <<js.fired, as.fired>>]
  /\ UNCHANGED <<rev, src, bytecode, t, obs, call, grid, gmem, gop, scene, sprites, events>>

NextBoth == UpdateBoth

SpecBoth == InitBoth /\ [][NextBoth]_vars

\* The fields that the two revisions are compared on.
Compared(tr) ==
  [cursor |-> tr.cursor, register |-> tr.register, accumulator |-> tr.accumulator,
   ticks |-> tr.ticks, counter |-> tr.counter, wait |-> tr.wait]

\* C29: given the same program and the same number of update() calls, the
\* JavaScript Track and the AssemblyScript Track have the same cursor, register,
\* accumulator, ticks, counter and wait, and fired the same callbacks with the
\* same arguments in the last call.
C29_RevisionsAgree ==
  rev = "both" =>
    /\ Compared(tracks[1]) = Compared(tracks[2])
    /\ log.fired[1] = log.fired[2]

-----------------------------------------------------------------------------
(* The decode loop of tinysprite.track.js over arbitrary bytes: a Track    *)
(* whose cursor is at any byte value, followed by operand bytes or by the  *)
(* end of `bytecode`.                                                      *)

\* The bytes that follow the byte at the cursor; none at all is a program
\* that ends inside an instruction.
Tails == { <<>>, <<0, 0>>, <<3, 0>>, <<255, 1>> }

\* Fields a Track has when it reaches the byte: fresh, after SET 200; ADD 100;
\* GT 0, and after SUB 1.
DecodeStates ==
  { Track_new(0),
    [Track_new(0) EXCEPT !.register = 300, !.accumulator = TRUE],
    [Track_new(0) EXCEPT !.register = -1] }

InitDecode ==
  /\ rev = "js"
  /\ src = <<>>
  /\ bytecode \in { <<b>> \o tail : b \in Bytes, tail \in Tails }
  /\ t \in DecodeStates
  /\ obs = Obs(Track_new(0), Track_new(0), "new", <<>>, <<>>)
  /\ Others

NextDecode == Update

SpecDecode == InitDecode /\ [][NextDecode]_vars

\* The name of the operation the Opcode table lists for a byte.
Mnemonic(b) ==
  CASE b = Opcode.NOP -> "nop"
    [] b = Opcode.HALT -> "halt"
    [] b = Opcode.JUMP -> "jump"
    [] b = Opcode.IFJUMP -> "ifjump"
    [] b = Opcode.IFNOTJUMP -> "ifnotjump"
    [] b = Opcode.SYSCALL -> "syscall"
    [] b = Opcode.RESET -> "reset"
    [] b = Opcode.SET -> "set"
    [] b = Opcode.ADD -> "add"
    [] b = Opcode.SUB -> "sub"
    [] b = Opcode.EQUAL -> "equal"
    [] b = Opcode.LT -> "lt"
    [] b = Opcode.GT -> "gt"
    [] b = Opcode.LTEQUAL -> "ltequal"
    [] b = Opcode.GTEQUAL -> "gtequal"
    [] b = Opcode.TICKS -> "ticks"
    [] b = Opcode.TICKS16 -> "ticks16"
    [] b = Opcode.WAIT -> "wait"
    [] b = Opcode.WAIT16 -> "wait16"
    [] b = Opcode.INSTRUMENT -> "instrument"
    [] b = Opcode.PLAY -> "play"
    [] OTHER -> "none"

\* The fields of a Track are numbers and flags update() can go on from.
WellFormed(tr) ==
  /\ tr.cursor \in Nat
  /\ tr.counter \in Nat
  /\ tr.wait \in Nat
  /\ tr.ticks \in Nat
  /\ tr.register \in Int
  /\ tr.note \in Bytes
  /\ tr.instrument \in Bytes
  /\ tr.syscode \in Words
  /\ tr.accumulator \in BOOLEAN
  /\ tr.sentHalt \in BOOLEAN
  /\ tr.sentSyscall \in BOOLEAN
  /\ tr.sentPlay \in BOOLEAN

\* C25: for every byte value at the cursor and every state of the Track a
\* decode step is defined: every dispatch of the decode loop is the operation
\* the Opcode table lists for the byte, or the implicit note (note = the byte,
\* sentPlay, cursor + 1), and the fields stay numbers and flags that update()
\* can go on from.
C25_DecodeIsTotal ==
  /\ WellFormed(t)
  /\ Decoding =>
       /\ obs.ops # <<>>
       /\ \A i \in 1..Len(obs.ops) :
            \E b \in {ByteAt(obs.ops[i].at)} :
              \/ b \in Opcodes /\ obs.ops[i].op = Mnemonic(b)
              \/ /\ obs.ops[i].op = "note"
                 /\ obs.ops[i].next = obs.ops[i].at + 1
                 /\ i = Len(obs.ops)
                 /\ t.note = b
                 /\ t.sentPlay

\* A JUMP that is the last byte of the program: both operand bytes are read
\* past the end, as 0, and the loop runs into its guard.
C25_Witness ==
  /\ bytecode = <<Opcode.JUMP>>
  /\ Decoding
  /\ Len(obs.ops) = 255
  /\ t.cursor = 0

-----------------------------------------------------------------------------
(* _wasm4-as/src/tinysprite.scene.ts: Sprite and Scene. A host constructs  *)
(* sprites, puts them in scene.children, and calls scene.loop() in every   *)
(* frame; sprites are destroyed by the host between frames or by their own *)
(* onUpdate.                                                               *)

\* Sprites the host puts in the scene.
MaxSprites == 3

\* Frames of a run.
MaxLoops == 3

\* Sprite.constructor (Rect.constructor enables collisions).
Sprite_new == [_created |-> FALSE, _destroyed |-> FALSE, collisionsEnabled |-> TRUE]

\* Sprite.destroy(): the fields after the call.
Sprite_destroy(sp) ==
  IF ~sp._destroyed
  THEN [sp EXCEPT !._destroyed = TRUE, !.collisionsEnabled = FALSE]
  ELSE sp

\* Array.indexOf, from 0; -1 when absent.
RECURSIVE indexOfFrom(_, _, _)
indexOfFrom(array, item, index) ==
  IF index >= Len(array) THEN -1
  ELSE IF array[index + 1] = item THEN index
  ELSE indexOfFrom(array, item, index + 1)

indexOf(array, item) == indexOfFrom(array, item, 0)

\* Array.splice(start, 1) with start >= 0: removes the element at start, if any.
splice1(array, start) ==
  IF start < Len(array)
  THEN SubSeq(array, 1, start) \o SubSeq(array, start + 2, Len(array))
  ELSE array

\* Scene.handleEvents(sprite), on st = [sprites, events]; `dying` are the
\* sprites whose onUpdate calls this.destroy().
Scene_handleEvents(st, sprite, dying) ==
  IF ~st.sprites[sprite]._destroyed
  THEN LET created == st.sprites[sprite]._created
           s1 == [st EXCEPT !.sprites[sprite]._created = TRUE,
                            !.events.seen[sprite] = TRUE,
                            !.events.create[sprite] = IF created THEN @ ELSE @ + 1]
       IN  IF sprite \in dying
           THEN [s1 EXCEPT !.sprites[sprite] = Sprite_destroy(@)]
           ELSE s1
  ELSE st

\* The first for statement of loop(), from `index`: handleEvents on every
\* child, the destroyed ones pushed onto `discard`.
RECURSIVE Scene_visit(_, _, _, _, _)
Scene_visit(st, children, index, discard, dying) ==
  IF index >= Len(children) THEN [st |-> st, discard |-> discard]
  ELSE LET child == children[index + 1]
           s1 == Scene_handleEvents(st, child, dying)
       IN  IF s1.sprites[child]._destroyed
           THEN Scene_visit([s1 EXCEPT !.events.found[child] = TRUE], children,
                            index + 1, Append(discard, child), dying)
           ELSE Scene_visit(s1, children, index + 1, discard, dying)

\* The second for statement of loop(), from `index`: onDestroy on every
\* sprite of `discard`, then children.splice(discard.indexOf(child), 1).
RECURSIVE Scene_discard(_, _, _)
Scene_discard(st, discard, index) ==
  IF index >= Len(discard) THEN st
  ELSE LET child == discard[index + 1]
           childIndex == indexOf(discard, child)
           s1 == [st EXCEPT !.events.destroy[child] = @ + 1]
       IN  Scene_discard(
             IF childIndex >= 0
             THEN [s1 EXCEPT !.children = splice1(@, childIndex)]
             ELSE s1,
             discard, index + 1)

InitScene ==
  /\ TrackIdle
  /\ bytecode = <<>>
  /\ call = NoCall /\ grid = NoGrid /\ gmem = <<>> /\ gop = NoGop
  /\ tracks = <<>> /\ log = NoLog
  /\ \E n \in 1..MaxSprites :
       /\ scene = [children |-> [i \in 1..n |-> i], _created |-> FALSE]
       /\ sprites = [i \in 1..n |-> Sprite_new]
       /\ events = [loops |-> 0,
                    create |-> [i \in 1..n |-> 0],
                    destroy |-> [i \in 1..n |-> 0],
                    seen |-> [i \in 1..n |-> FALSE],
                    found |-> [i \in 1..n |-> FALSE]]

\* The host calls sprite.destroy() between two frames.
Destroy ==
  /\ \E sprite \in DOMAIN sprites :
       /\ ~sprites[sprite]._destroyed
       /\ sprites' = [sprites EXCEPT ![sprite] = Sprite_destroy(@)]
  /\ UNCHANGED <<rev, src, bytecode, t, obs, call, grid, gmem, gop, tracks, log,
                 scene, events>>

\* Scene.loop()
Loop ==
  /\ events.loops < MaxLoops
  /\ \E dying \in SUBSET DOMAIN sprites :
       \E v \in {Scene_visit([sprites |-> sprites, events |-> events],
                             scene.children, 0, <<>>, dying)} :
         \E d \in {Scene_discard([children |-> scene.children,
                                   events |-> v.st.events], v.discard, 0)} :
           /\ scene' = [children |-> d.children, _created |-> TRUE]
           /\ sprites' = v.st.sprites
           /\ events' = [d.events EXCEPT !.loops = @ + 1]
  /\ UNCHANGED <<rev, src, bytecode, t, obs, call, grid, gmem, gop, tracks, log>>

NextScene == Destroy \/ Loop

SpecScene == InitScene /\ [][NextScene]_vars

\* C28: across any sequence of Scene.loop() calls, onCreate fires once for
\* every sprite whose events a loop has run and never a second time, and
\* onDestroy fires once for every sprite a loop has found destroyed and never
\* a second time.
C28_CreateAndDestroyOnce ==
  \A sprite \in DOMAIN sprites :
    /\ events.create[sprite] = (IF events.seen[sprite] THEN 1 ELSE 0)
    /\ events.destroy[sprite] = (IF events.found[sprite] THEN 1 ELSE 0)

\* C37: after Scene.loop() returns, children holds exactly the sprites that
\* were in it and are not destroyed, in their original order: every sprite
\* found destroyed in the loop is removed and no live sprite is removed.
C37_LoopRemovesTheDestroyed ==
  [][events'.loops # events.loops =>
       scene'.children =
         SelectSeq(scene.children, LAMBDA child : ~sprites'[child]._destroyed)]_vars

-----------------------------------------------------------------------------
(* Properties of the Track: the callbacks of one update() call.            *)

\* C31: in each Track revision a single update() call fires at most one
\* callback in total (one of halt, syscall, play), for every program and every
\* reachable state of the Track.
C31_AtMostOneCallback == Len(obs.fired) <= 1

-----------------------------------------------------------------------------
(* Properties of the Track: reset().                                       *)

\* C33: Track.reset() restores every field to its value at construction
\* (cursor, counter, register, instrument, note, syscode, ticks and wait zero;
\* accumulator and the three flags false), so the next update() of a Track
\* that was reset, halted or not, is that of a freshly constructed Track.
C33_ResetRestores ==
  obs.gate = "reset" =>
    /\ t = Track_new(obs.before.data)
    /\ Track_update(bytecode, t) = Track_update(bytecode, Track_new(obs.before.data))

\* A Track that had halted beyond offset 0, with a note played, was reset.
C33_Witness ==
  /\ obs.gate = "reset"
  /\ obs.before.sentHalt
  /\ obs.before.cursor > 0
  /\ obs.before.note > 0
  /\ ~t.sentHalt

-----------------------------------------------------------------------------
(* The JavaScript Track over TICKS t; WAIT n; PLAY 60, with the update()   *)
(* calls counted: the host calls update() until the program has run out.   *)

\* Largest tick rate and largest wait period of the programs built.
MaxTicks == 3

MaxWait == 3

\* TICKS t; WAIT n (or WAIT16 n); PLAY 60, and a WAIT16 whose operand needs
\* its high byte (0x0100), pushed with db.
WaitPrograms ==
  { ticks(r) \o wait(n) \o play(60) : r \in 0..MaxTicks, n \in 0..MaxWait }
    \cup { ticks(r) \o wait16(n) \o play(60) : r \in 0..MaxTicks, n \in 0..MaxWait }
    \cup { ticks(1) \o db(<<Opcode.WAIT16, 0, 1>>) \o play(60) }

InitWait ==
  /\ rev = "js"
  /\ src = <<>>
  /\ bytecode \in WaitPrograms
  /\ t = Track_new(0)
  /\ obs = Obs(Track_new(0), Track_new(0), "new", <<>>, <<>>)
  /\ call = NoCall /\ grid = NoGrid /\ gmem = <<>> /\ gop = NoGop
  /\ tracks = <<>>
  /\ log = [n |-> <<0>>, fired |-> << <<>> >>, decoded |-> <<>>]
  /\ NoStage

\* The dispatches of the call numbered `n`, as the host's log keeps them: the
\* call, the operation, and the fields of the Track when the call returned.
Logged(n, r) ==
  [i \in 1..Len(r.ops) |->
     [call |-> n, op |-> r.ops[i].op, wait |-> r.t.wait, ticks |-> r.t.ticks,
      cursor |-> r.t.cursor]]

\* update(), counted.
UpdateCounted ==
  /\ rev = "js"
  /\ t.cursor < Len(bytecode)
  /\ \E r \in {Track_update(bytecode, t)} :
       /\ t' = r.t
       /\ obs' = Obs(t, r.entry, r.gate, r.ops, r.fired)
       /\ log' = [n |-> <<log.n[1] + 1>>, fired |-> <<r.fired>>,
                  decoded |-> log.decoded \o Logged(log.n[1] + 1, r)]
  /\ UNCHANGED <<rev, src, bytecode, call, grid, gmem, gop, tracks,
                 scene, sprites, events>>

NextWait == UpdateCounted

SpecWait == InitWait /\ [][NextWait]_vars

\* C32: after WAIT n (or WAIT16 n) is decoded while the tick rate is r, the
\* next instruction is decoded exactly (n + 1) * (r + 1) update() calls later;
\* until then the cursor does not move and no instruction is decoded.
C32_WaitTiming ==
  \A i \in 1..Len(log.decoded) :
    log.decoded[i].op \in {"wait", "wait16"} =>
      IF i < Len(log.decoded)
      THEN log.decoded[i + 1].call
             = log.decoded[i].call
                 + ((log.decoded[i].wait + 1) * (log.decoded[i].ticks + 1))
      ELSE /\ t.cursor = log.decoded[i].cursor
           /\ log.n[1] < log.decoded[i].call
                 + ((log.decoded[i].wait + 1) * (log.decoded[i].ticks + 1))

\* WAIT 2 was decoded at tick rate 3, and PLAY twelve calls after it.
C32_Witness ==
  /\ Len(log.decoded) = 3
  /\ log.decoded[2].op = "wait"
  /\ log.decoded[2].wait = 2
  /\ log.decoded[2].ticks = 3
  /\ log.decoded[3].op = "play"
  /\ log.decoded[3].call = log.decoded[2].call + 12

-----------------------------------------------------------------------------
(* The addressing of DataGrid: the byte offset and the field index that    *)
(* getAt and setAt derive from (x, y), for grids of one or more bytes per  *)
(* row.                                                                    *)

\* Bytes in a row of the widest grid.
MaxBytesPerRow == 2

\* getAt: x % this.format
gridIndex(g, x) == Rem(x, g.format)

\* setAt: i32(Math.abs(x % this.format))
gridIndexAbs(g, x) == Abs(Rem(x, g.format))

\* The address of (x, y): offset, and index as getAt and as setAt compute it.
Address(g, x, y) ==
  [x |-> x, y |-> y, offset |-> gridOffset(g, x, y),
   index |-> gridIndex(g, x), indexAbs |-> gridIndexAbs(g, x)]

InitAddr ==
  /\ TrackIdle
  /\ bytecode = <<>>
  /\ call = NoCall
  /\ \E f \in {GridFormat.Bits, GridFormat.HalfNibbles, GridFormat.Nibbles},
        n \in 1..MaxBytesPerRow, h \in 1..MaxRows :
       /\ grid = [w |-> n * f, h |-> h, format |-> f]
       /\ gmem = [i \in 1..(n * h) |-> 0]
  /\ gop = [op |-> "new"]
  /\ tracks = <<>>
  /\ log = NoLog
  /\ NoStage

\* Two in-bounds positions are addressed, as by getAt or setAt.
Addressed ==
  /\ gop.op = "new"
  /\ \E x1 \in 0..(grid.w - 1), y1 \in 0..(grid.h - 1),
        x2 \in 0..(grid.w - 1), y2 \in 0..(grid.h - 1) :
       /\ within(grid, x1, y1) /\ within(grid, x2, y2)
       /\ gop' = [op |-> "address", a |-> Address(grid, x1, y1),
                  b |-> Address(grid, x2, y2)]
  /\ UNCHANGED <<rev, src, bytecode, t, obs, call, grid, gmem, tracks, log,
                 scene, sprites, events>>

NextAddr == Addressed

SpecAddr == InitAddr /\ [][NextAddr]_vars

\* C34: for a grid whose width is a multiple of the fields per byte, distinct
\* in-bounds coordinates map to distinct (byte offset, field index) pairs, and
\* every byte offset lies in [0, width * height / fieldsPerByte).
C34_AddressingIsInjective ==
  gop.op = "address" =>
    /\ (gop.a.x # gop.b.x \/ gop.a.y # gop.b.y) =>
         /\ <<gop.a.offset, gop.a.index>> # <<gop.b.offset, gop.b.index>>
         /\ <<gop.a.offset, gop.a.indexAbs>> # <<gop.b.offset, gop.b.indexAbs>>
    /\ gop.a.offset \in 0..(((grid.w * grid.h) \div grid.format) - 1)
    /\ gop.a.index \in 0..(grid.format - 1)

\* In a HalfNibbles grid of two bytes per row, the last field of the first
\* row and the first field of the second row: offsets 1 and 2.
C34_Witness ==
  /\ gop.op = "address"
  /\ grid = [w |-> 8, h |-> 2, format |-> 4]
  /\ gop.a = [x |-> 7, y |-> 0, offset |-> 1, index |-> 3, indexAbs |-> 3]
  /\ gop.b = [x |-> 0, y |-> 1, offset |-> 2, index |-> 0, indexAbs |-> 0]

-----------------------------------------------------------------------------
(* Canvas.getPixel and Canvas.setPixel in two revisions: part_001 splits   *)
(* the framebuffer byte with a HalfNibbleArray, v1.3.8 (lib/bitmap.d.ts)   *)
(* with shifts and masks. gmem holds the first bytes of the framebuffer.   *)

\* Framebuffer bytes kept: the pixels (0..4 * MaxFbBytes - 1, 0).
MaxFbBytes == 2

\* (x < 0 || x >= 160) || (y < 0 || y >= 160), negated
Canvas_onScreen(x, y) == ~((x < 0 \/ x >= 160) \/ (y < 0 \/ y >= 160))

\* (y * 40) + (x / 4)
Canvas_offset(x, y) == (y * 40) + Quot(x, 4)

\* Math.abs(x % 4) as i32
Canvas_index(x) == Abs(Rem(x, 4))

\* part_001 getPixel: new HalfNibbleArray(pixelData)[index]
Canvas_getPixel(pixelData, x) ==
  HalfNibbleArray_new(pixelData)[Canvas_index(x) + 1]

\* part_001 setPixel: pixels[3 - index] = color % 4; pixelData = pixels.value
Canvas_setPixel(pixelData, x, color) ==
  HalfNibbleArray_value(
    [HalfNibbleArray_new(pixelData) EXCEPT ![(3 - Canvas_index(x)) + 1] = color % 4])

\* v1.3.8: pixels[0] = pixelData & 3, pixels[1] = (pixelData & 12) >> 2,
\* pixels[2] = (pixelData & 48) >> 4, pixels[3] = (pixelData & 192) >> 6
Canvas_split_v138(pixelData) ==
  <<BitAnd(pixelData, 3), Shr(BitAnd(pixelData, 12), 2),
    Shr(BitAnd(pixelData, 48), 4), Shr(BitAnd(pixelData, 192), 6)>>

\* v1.3.8 getPixel: pixels[index]
Canvas_getPixel_v138(pixelData, x) ==
  Canvas_split_v138(pixelData)[Canvas_index(x) + 1]

\* v1.3.8 setPixel: pixels[index] = color % 4;
\* pixelData = (pixels[3] << 6) + (pixels[2] << 4) + (pixels[1] << 2) + pixels[0]
Canvas_setPixel_v138(pixelData, x, color) ==
  LET pixels == [Canvas_split_v138(pixelData) EXCEPT ![Canvas_index(x) + 1] = color % 4]
  IN  ToU8((pixels[4] * 64) + (pixels[3] * 16) + (pixels[2] * 4) + pixels[1])

\* Positions: the kept pixels of row 0 and the nearest ones off the screen.
CanvasXs == (-1..((4 * MaxFbBytes) - 1)) \cup {160}

CanvasYs == {-1, 0, 160}

\* Colours, a u8 each: the four indices and values that `% 4` reduces.
CanvasColors == {0, 1, 2, 3, 4, 6, 255}

InitCanvas ==
  /\ TrackIdle
  /\ bytecode = <<>>
  /\ call = NoCall
  /\ grid = NoGrid
  /\ \E b \in Bytes :
       gmem = [i \in 1..MaxFbBytes |-> IF i % 2 = 1 THEN b ELSE 255 - b]
  /\ gop = NoGop
  /\ tracks = <<>>
  /\ log = NoLog
  /\ NoStage

\* getPixel(x, y) of part_001, with what v1.3.8 returns from the same byte.
GetPixel ==
  /\ call = NoCall
  /\ \E x \in CanvasXs, y \in CanvasYs :
       IF Canvas_onScreen(x, y)
       THEN \E pixelData \in {gmem[Canvas_offset(x, y) + 1]} :
              call' = [fn |-> "getPixel", x |-> x, y |-> y, color |-> 0,
                       pixelData |-> pixelData,
                       result |-> Canvas_getPixel(pixelData, x),
                       result_v138 |-> Canvas_getPixel_v138(pixelData, x)]
       ELSE call' = [fn |-> "getPixel", x |-> x, y |-> y, color |-> 0,
                     pixelData |-> 0, result |-> 0, result_v138 |-> 0]
  /\ UNCHANGED <<rev, src, bytecode, t, obs, grid, gmem, gop, tracks, log,
                 scene, sprites, events>>

\* setPixel(x, y, color) of part_001 on the framebuffer, with the byte that
\* v1.3.8 stores from the same prior byte.
SetPixel ==
  /\ call = NoCall
  /\ \E x \in CanvasXs, y \in CanvasYs, color \in CanvasColors :
       IF Canvas_onScreen(x, y)
       THEN \E pixelData \in {gmem[Canvas_offset(x, y) + 1]} :
              /\ gmem' = [gmem EXCEPT ![Canvas_offset(x, y) + 1] =
                            Canvas_setPixel(pixelData, x, color)]
              /\ call' = [fn |-> "setPixel", x |-> x, y |-> y, color |-> color,
                          pixelData |-> pixelData,
                          result |-> Canvas_setPixel(pixelData, x, color),
                          result_v138 |-> Canvas_setPixel_v138(pixelData, x, color)]
       ELSE /\ gmem' = gmem
            /\ call' = [fn |-> "setPixel", x |-> x, y |-> y, color |-> color,
                        pixelData |-> 0, result |-> 0, result_v138 |-> 0]
  /\ UNCHANGED <<rev, src, bytecode, t, obs, grid, gop, tracks, log,
                 scene, sprites, events>>

NextCanvas == GetPixel \/ SetPixel

SpecCanvas == InitCanvas /\ [][NextCanvas]_vars

\* C35: for every on-screen (x, y), colour and prior framebuffer byte,
\* setPixel of part_001 stores the byte that setPixel of v1.3.8 stores and
\* getPixel of part_001 returns the value that getPixel of v1.3.8 returns.
C35_CanvasRevisionsAgree ==
  call.fn \in {"getPixel", "setPixel"} => call.result = call.result_v138

-----------------------------------------------------------------------------
(* Gamepad of tinysprite.ts: six GamepadButton, each advanced by next()    *)
(* on every update() from one bit of the pad byte. The byte is modelled as *)
(* the set of buttons whose bit is set: the masks w4.BUTTON_* are distinct *)
(* bits, so `bool(state & mask)` is membership. The Math.random() calls of *)
(* update() touch no state of the gamepad. Beside each button runs the     *)
(* GamepadButton of part_001, advanced by nextState() on the same reads.   *)

\* Updates of the gamepad that are followed.
MaxReads == 4

Buttons == {"up", "down", "left", "right", "x", "z"}

\* GamepadButton.cycle: memory.data<u8>([1, 2, 2, 1, 0, 3, 3, 0])
GamepadButton_cycle == <<1, 2, 2, 1, 0, 3, 3, 0>>

\* next: offset = cycle + state; if(isPressed) offset += 4; state = load<u8>(offset)
GamepadButton_next(state, isPressed) ==
  GamepadButton_cycle[(state + (IF isPressed THEN 4 ELSE 0)) + 1]

\* part_001 nextState: whenPressed = [PRESSED, HELD, HELD, PRESSED],
\* whenReleased = [IDLE, RELEASED, RELEASED, IDLE]
GamepadButton_nextState(state, pressed) ==
  IF pressed THEN <<1, 2, 2, 1>>[state + 1] ELSE <<0, 3, 3, 0>>[state + 1]

\* isIdle, isPressed, isHeld, isReleased: state === 0, 1, 2, 3
isIdle(state) == state = 0

isPressed(state) == state = 1

isHeld(state) == state = 2

isReleased(state) == state = 3

\* The pad bytes read, as the buttons down.
PadReads == { {}, {"x"}, {"x", "up"}, {"z", "left", "right", "down"} }

\* constructor: six new GamepadButton, state = 0
InitPad ==
  /\ TrackIdle
  /\ bytecode = <<>>
  /\ call = NoCall
  /\ grid = NoGrid
  /\ gmem = <<>>
  /\ gop = [op |-> "gamepad", pad |-> [b \in Buttons |-> 0],
            pad_001 |-> [b \in Buttons |-> 0]]
  /\ tracks = <<>>
  /\ log = [read |-> <<>>, pad |-> <<>>, pad_001 |-> <<>>]
  /\ NoStage

\* Gamepad.update(): the pad byte is read and every button advanced.
GamepadUpdate ==
  /\ gop.op = "gamepad"
  /\ Len(log.read) < MaxReads
  /\ \E state \in PadReads :
       \E pad \in {[b \in Buttons |-> GamepadButton_next(gop.pad[b], b \in state)]},
          pad_001 \in {[b \in Buttons |->
                          GamepadButton_nextState(gop.pad_001[b], b \in state)]} :
         /\ gop' = [gop EXCEPT !.pad = pad, !.pad_001 = pad_001]
         /\ log' = [read |-> Append(log.read, state),
                    pad |-> Append(log.pad, pad),
                    pad_001 |-> Append(log.pad_001, pad_001)]
  /\ UNCHANGED <<rev, src, bytecode, t, obs, call, grid, gmem, tracks,
                 scene, sprites, events>>

NextPad == GamepadUpdate

SpecPad == InitPad /\ [][NextPad]_vars

\* C36: a button read as pressed on consecutive update() calls starting from
\* idle is isPressed after the first call and isHeld after every later one;
\* once read as not pressed it is isReleased after that one call and isIdle
\* after every later one; and after every call the state is the one that
\* nextState of part_001 reaches on the same reads.
C36_PressHoldReleaseIdle ==
  log.read # <<>> =>
    \A b \in Buttons :
      /\ \A k \in 1..Len(log.read) :
           (\A i \in 1..Len(log.read) : (b \in log.read[i]) <=> (i <= k)) =>
             \A i \in 1..Len(log.read) :
               /\ i = 1 => isPressed(log.pad[i][b])
               /\ (1 < i /\ i <= k) => isHeld(log.pad[i][b])
               /\ i = k + 1 => isReleased(log.pad[i][b])
               /\ i > k + 1 => isIdle(log.pad[i][b])
      /\ \A i \in 1..Len(log.read) : log.pad[i][b] = log.pad_001[i][b]

====
